---- MODULE Spec2Model ----
(***************************************************************************)
(* A model of Gesture_Shooter's input fusion and combat-resolution core    *)
(* (src/js/core.js): the gesture signal conditioner                        *)
(* (GestureInputManager.onResults), the input manager and its providers,   *)
(* and the simulation loop of Game (update, updatePlaying,                 *)
(* handleCollisions, restart).                                             *)
(*                                                                         *)
(* Units.  Hand landmarks are normalised image coordinates; the model      *)
(* counts them in thousandths (0.04 is 40).  The gesture aim and the mouse  *)
(* count in 1 / AimScale of a pixel, the positions and radii of the        *)
(* entities in 1 / PX of a pixel, durations in 1 / SECOND of a second and  *)
(* Date.now() in tenths of a second.  Distances are compared through       *)
(* their squares, which orders them as Math.sqrt / Math.hypot do.          *)
(*                                                                         *)
(* gameplay.js (Player, the enemies, the weapons, Projectile, Pickup) is   *)
(* not among the sources; its entities are modelled from the               *)
(* specification's description of them.                                    *)
(***************************************************************************)
EXTENDS Integers, Sequences, FiniteSets, TLC

VARIABLES
    gestureInput,   \* the GestureInputManager object
    results,        \* the hand-landmark frame last given to onResults
    pinchRun,       \* history: per hand, whether the current run of frames
                    \* (hand present, tip distance never above the exit
                    \* threshold) holds a frame below the enter threshold
    inputManager,   \* the InputManager object, with its registry
    keyboardMouse,  \* the KeyboardMouseProvider object: keys, mouseButtons
    game,           \* the Game object, with its state machine
    dateNow,        \* Date.now(), in tenths of a second
    hist,           \* history: per flag the time of the last toggle and
                    \* the raise signals since that toggle at the present
                    \* reading of the clock (two stands for more); the
                    \* PLAYING time since the last haste pickup; the time
                    \* the loop has run
    ev              \* the operation that made the last step

gestureVars == <<gestureInput, results, pinchRun>>

inputVars == <<inputManager, keyboardMouse>>

gameVars == <<game, dateNow, hist>>

vars ==
    <<gestureInput, results, pinchRun, inputManager, keyboardMouse,
      game, dateNow, hist, ev>>

----------------------------------------------------------------------------
(* Small helpers *)

Abs(n) == IF n < 0 THEN -n ELSE n

Min(a, b) == IF a <= b THEN a ELSE b

Max(a, b) == IF a >= b THEN a ELSE b

Point(px, py) == [x |-> px, y |-> py]

\* An absent (null / undefined) point: has = FALSE and the coordinates 0.
NoPoint == [has |-> FALSE, x |-> 0, y |-> 0]

Some(p) == [has |-> TRUE, x |-> p.x, y |-> p.y]

----------------------------------------------------------------------------
(* GestureInputManager *)

\* Thresholds of the pinch hysteresis, in thousandths.
rightPinchOnThreshold == 40

rightPinchOffThreshold == 55

leftPinchOnThreshold == 40

leftPinchOffThreshold == 60

\* The labels Mediapipe gives a hand.
Labels == {"Left", "Right"}

\* Index fingertips (landmarks[8]) the frames of the model draw from.
PinchFingerTips == {Point(800, 600)}

\* Offsets of the thumb tip (landmarks[4]) from the index fingertip; their
\* lengths are 30, 40, 50, 55, 56, 60 and 61 thousandths, which puts a value
\* below, on and above each threshold.
ThumbOffsets ==
    {Point(0, 30), Point(24, 32), Point(0, 50), Point(33, 44),
     Point(0, 56), Point(36, 48), Point(0, 61)}

HandRecords(tips) ==
    {[label |-> l, tip |-> t, thumb |-> Point(t.x + o.x, t.y + o.y)] :
        l \in Labels, t \in tips, o \in ThumbOffsets}

\* results.multiHandLandmarks / multiHandedness: zero, one or two hands.
Frames(tips) ==
    {<<>>} \cup {<<h>> : h \in HandRecords(tips)}
           \cup {<<h1, h2>> : h1 \in HandRecords(tips), h2 \in HandRecords(tips)}

PinchFrames == Frames(PinchFingerTips)

\* The fingertip and thumb tip onResults keeps for one label: those of the
\* last hand of the frame carrying the label, none when no hand carries it.
RECURSIVE HandOf(_, _, _)
HandOf(frame, label, i) ==
    IF i = 0 THEN [present |-> FALSE, tip |-> Point(0, 0), thumb |-> Point(0, 0)]
    ELSE IF frame[i].label = label
         THEN [present |-> TRUE, tip |-> frame[i].tip, thumb |-> frame[i].thumb]
         ELSE HandOf(frame, label, i - 1)

rightHand(frame) == HandOf(frame, "Right", Len(frame))

leftHandFromAnyLabel(frame) ==
    IF Len(frame) = 0 THEN HandOf(frame, "Left", 0)
    ELSE [present |-> TRUE, tip |-> frame[Len(frame)].tip,
          thumb |-> frame[Len(frame)].thumb]

leftHand(frame) == HandOf(frame, "Left", Len(frame))

\* Math.hypot(dxn, dyn) squared.
distNormSq(hand) ==
    (hand.thumb.x - hand.tip.x) * (hand.thumb.x - hand.tip.x)
    + (hand.thumb.y - hand.tip.y) * (hand.thumb.y - hand.tip.y)

\* The hysteresis of one hand: the new pinch state.
PinchJudgmentNoHysteresis(active, hand, onThreshold, offThreshold) ==
    IF hand.present
    THEN distNormSq(hand) < onThreshold * onThreshold
    ELSE FALSE

\* The mutant: a hand that is absent keeps its pinch state.
PinchJudgmentHeld(active, hand, onThreshold, offThreshold) ==
    IF hand.present
    THEN IF active
         THEN ~(distNormSq(hand) > offThreshold * offThreshold)
         ELSE distNormSq(hand) < onThreshold * onThreshold
    ELSE active

PinchJudgment(active, hand, onThreshold, offThreshold) ==
    IF hand.present
    THEN IF active
         THEN ~(distNormSq(hand) > offThreshold * offThreshold)
         ELSE distNormSq(hand) < onThreshold * onThreshold
    ELSE FALSE

\* The reference point of the movement hand, in thousandths.
centerX == 800

centerY == 600

\* Floor of the square root, by bisection.
RECURSIVE SqrtBetween(_, _, _)
SqrtBetween(n, lo, hi) ==
    IF hi - lo <= 1 THEN lo
    ELSE LET mid == (lo + hi) \div 2
         IN IF mid * mid <= n THEN SqrtBetween(n, mid, hi)
                              ELSE SqrtBetween(n, lo, mid)

ISqrt(n) == SqrtBetween(n, 0, Min(n + 1, 46340))

\* Math.round of num / den for den > 0: halves go up.
Round(num, den) == (2 * num + den) \div (2 * den)

clamp(value, lo, hi) == Min(Max(value, lo), hi)

\* The movement vector of a frame, in thousandths of a unit: the fingertip's
\* offset from the centre, both axes inverted, normalised; zero inside the
\* deadzone of 0.05 and with no right hand.
moveVectorOf(hand) ==
    IF ~hand.present THEN Point(0, 0)
    ELSE LET dx == -(hand.tip.x - centerX)
             dy == -(hand.tip.y - centerY)
             magSq == dx * dx + dy * dy
             magnitude == ISqrt(magSq)
         IN IF magSq > 50 * 50
            THEN Point((dx * 1000) \div magnitude, (dy * 1000) \div magnitude)
            ELSE Point(0, 0)

\* GestureInputManager.getMoveVector: the y axis flipped.
getMoveVector(gi) == Point(gi.moveVector.x, -gi.moveVector.y)

isGestureShootingActive(gi) == gi.gestureShootingActive

\* GestureInputManager.getGestureAimTargetGame: a copy of the target, or
\* null.
getGestureAimTargetGame(gi) == gi.gestureAimTargetGame

\* The size of the overlay canvas after syncOverlaySize, in pixels.
overlayWidth == 400

overlayHeight == 250

\* The smoothed aim point is kept in 1 / AimScale of a pixel; a smoothing
\* step divides by 5, so AimScalePower steps in a row stay exact.
AimScalePower == 2

AimScale == 5 ^ AimScalePower

aimDeadzonePx == 6

aimMaxStepPx == 10000

\* The arena, and the size setArenaSize gives the gesture manager.
ARENA_WIDTH == 1200

ARENA_HEIGHT == 800

\* The interaction region: 15% of the overlay at the arena's aspect ratio,
\* centred on (0.25 w, 0.6 h) and kept inside the overlay.
Region ==
    LET w == overlayWidth
        h == overlayHeight
        rectW == ISqrt((w * h * 15 * ARENA_WIDTH) \div (100 * ARENA_HEIGHT))
        rectH == ISqrt((w * h * 15 * ARENA_HEIGHT) \div (100 * ARENA_WIDTH))
        leftX == Round(w - 2 * rectW, 4)
        topY == Round(6 * h - 5 * rectH, 10)
    IN [dx |-> Max(0, Min(leftX, w - rectW)),
        dy |-> Max(0, Min(topY, h - rectH)),
        rectW |-> rectW, rectH |-> rectH]

\* The fingertip in thousandths of an overlay pixel.
tipPx(hand) == Point(hand.tip.x * overlayWidth, hand.tip.y * overlayHeight)

withinRegion(hand) ==
    /\ tipPx(hand).x >= 1000 * Region.dx
    /\ tipPx(hand).x <= 1000 * (Region.dx + Region.rectW)
    /\ tipPx(hand).y >= 1000 * Region.dy
    /\ tipPx(hand).y <= 1000 * (Region.dy + Region.rectH)

\* a * b \div d for a, b >= 0 and d > 0, without the product a * b.
MulDiv(a, b, d) == (a \div d) * b + ((a % d) * b) \div d

\* The raw aim point in arena coordinates (1 / AimScale): the fingertip's
\* place in the region, mirrored horizontally, rescaled to the arena.
rawAim(hand) ==
    LET localX == 1000 * Region.rectW - (tipPx(hand).x - 1000 * Region.dx)
        localY == tipPx(hand).y - 1000 * Region.dy
    IN Point(MulDiv(localX * AimScale, ARENA_WIDTH, 1000 * Region.rectW),
             MulDiv(localY * AimScale, ARENA_HEIGHT, 1000 * Region.rectH))

\* Math.hypot(dxAim, dyAim) < aimDeadzonePx, the squares taken only of
\* components that are themselves below the deadzone.
withinDeadzone(dxAim, dyAim) ==
    /\ Abs(dxAim) < aimDeadzonePx * AimScale
    /\ Abs(dyAim) < aimDeadzonePx * AimScale
    /\ dxAim * dxAim + dyAim * dyAim
          < aimDeadzonePx * aimDeadzonePx * AimScale * AimScale

\* The mutant: the deadzone is ignored.
smoothAimNoDeadzone(prev, raw) ==
    Point((6 * prev.x + 4 * raw.x) \div 10, (6 * prev.y + 4 * raw.y) \div 10)

\* One step of the smoothing: unchanged inside the deadzone, else the
\* capped step blended with weight 0.4.
smoothAim(prev, raw) ==
    LET dxAim == raw.x - prev.x
        dyAim == raw.y - prev.y
        cap == aimMaxStepPx * AimScale
        cappedRawX == prev.x + clamp(dxAim, -cap, cap)
        cappedRawY == prev.y + clamp(dyAim, -cap, cap)
    IN IF withinDeadzone(dxAim, dyAim)
       THEN prev
       ELSE Point((6 * prev.x + 4 * cappedRawX) \div 10,
                  (6 * prev.y + 4 * cappedRawY) \div 10)

\* Whether the smoothing step of a frame is exact at the model's precision.
smoothExact(prev, raw) ==
    LET dxAim == raw.x - prev.x
        dyAim == raw.y - prev.y
    IN \/ withinDeadzone(dxAim, dyAim)
       \/ /\ (6 * prev.x + 4 * raw.x) % 10 = 0
          /\ (6 * prev.y + 4 * raw.y) % 10 = 0

\* The mutant: after a frame without aim the smoothing starts afresh.
prevAimAfresh(gi, hand) ==
    IF gi.gestureAimSmoothed.has /\ gi.gestureShootingActive
    THEN Point(gi.gestureAimSmoothed.x, gi.gestureAimSmoothed.y)
    ELSE rawAim(hand)

prevAim(gi, hand) ==
    IF gi.gestureAimSmoothed.has
    THEN Point(gi.gestureAimSmoothed.x, gi.gestureAimSmoothed.y)
    ELSE rawAim(hand)

\* The aim fields after a frame (the block that runs with an overlay).
aimOf(gi, hand) ==
    IF ~(gi.overlay /\ hand.present)
    THEN [gestureShootingActive |-> FALSE,
          gestureAimSmoothed |-> gi.gestureAimSmoothed,
          gestureAimTargetGame |-> gi.gestureAimTargetGame]
    ELSE IF withinRegion(hand)
    THEN LET s == smoothAim(prevAim(gi, hand), rawAim(hand))
         IN [gestureShootingActive |-> TRUE,
             gestureAimSmoothed |-> Some(s),
             gestureAimTargetGame |->
                 Some(Point(Round(s.x, AimScale), Round(s.y, AimScale)))]
    ELSE [gestureShootingActive |-> FALSE,
          gestureAimSmoothed |-> gi.gestureAimSmoothed,
          gestureAimTargetGame |-> NoPoint]

\* The GestureInputManager after onResults(frame).
onResults(gi, frame) ==
    LET aim == aimOf(gi, leftHand(frame))
    IN [gi EXCEPT
          !.leftHandPresent = leftHand(frame).present,
          !.rightPinchActive =
              PinchJudgment(gi.rightPinchActive, rightHand(frame),
                            rightPinchOnThreshold, rightPinchOffThreshold),
          !.leftPinchActive =
              PinchJudgment(gi.leftPinchActive, leftHand(frame),
                            leftPinchOnThreshold, leftPinchOffThreshold),
          !.moveVector = moveVectorOf(rightHand(frame)),
          !.gestureShootingActive = aim.gestureShootingActive,
          !.gestureAimSmoothed = aim.gestureAimSmoothed,
          !.gestureAimTargetGame = aim.gestureAimTargetGame]

\* The frames whose smoothing step the model can hold exactly.
Representable(gi, frame) ==
    LET hand == leftHand(frame)
    IN (gi.overlay /\ hand.present /\ withinRegion(hand))
         => smoothExact(prevAim(gi, hand), rawAim(hand))

\* The object after the constructor, init() and setArenaSize().
NewGestureInput(hasOverlay) ==
    [moveVector |-> Point(0, 0),
     initialized |-> TRUE,
     overlay |-> hasOverlay,
     leftHandPresent |-> FALSE,
     gestureAimSmoothed |-> NoPoint,
     gestureAimTargetGame |-> NoPoint,
     gestureShootingActive |-> FALSE,
     rightPinchActive |-> FALSE,
     leftPinchActive |-> FALSE]

\* The history of one hand's run of frames after a frame.
RunAfter(run, hand, onThreshold, offThreshold) ==
    IF ~hand.present \/ distNormSq(hand) > offThreshold * offThreshold
    THEN FALSE
    ELSE IF distNormSq(hand) < onThreshold * onThreshold THEN TRUE ELSE run

----------------------------------------------------------------------------
(* InputManager and its providers *)

\* The provider objects setupInput creates, and the name property of each.
Providers == {"keyboardMouse", "gesture", "voice"}

nameOf ==
    [p \in Providers |->
        CASE p = "keyboardMouse" -> "keyboard-mouse"
          [] p = "gesture" -> "gesture"
          [] p = "voice" -> "voice"]

\* No provider: null, or a name the registry does not hold.
NoProvider == "none"

\* The names a provider is registered under: the three of setupInput and
\* one that is no provider's own name.
RegistryNames == {"keyboard-mouse", "gesture", "voice", "primary"}

\* Date.now() / 1000 counts in tenths of a second; the cooldowns are 0.2 s.
weaponSwitchCooldown == 2

creatorModeToggleCooldown == 2

\* The object after the constructor.  activations is the providers' side of
\* activate() / deactivate(): the number of activate() calls of each
\* provider that no deactivate() has followed.
NewInputManager ==
    [providers |-> [n \in RegistryNames |-> NoProvider],
     activeProvider |-> NoProvider,
     fallbackProvider |-> NoProvider,
     activations |-> [p \in Providers |-> 0],
     moveVector |-> Point(0, 0),
     fire |-> FALSE,
     pickup |-> FALSE,
     switchWeapon |-> FALSE,
     lastWeaponSwitchTime |-> 0,
     creatorMode |-> FALSE,
     lastCreatorModeToggleTime |-> 0,
     mouseX |-> 0,
     mouseY |-> 0]

\* this.providers.get(name)
providersGet(im, name) ==
    IF name \in RegistryNames THEN im.providers[name] ELSE NoProvider

\* setActiveProvider without the deactivate() of the provider it replaces.
setActiveProviderNoDeactivate(im, name) ==
    LET provider == providersGet(im, name)
    IN IF provider # NoProvider
       THEN [im EXCEPT !.activeProvider = provider,
                       !.activations[provider] = @ + 1]
       ELSE im

setActiveProvider(im, name) ==
    LET provider == providersGet(im, name)
        deactivated ==
            IF im.activeProvider # NoProvider
            THEN [im.activations EXCEPT ![im.activeProvider] = @ - 1]
            ELSE im.activations
    IN IF provider # NoProvider
       THEN [im EXCEPT !.activeProvider = provider,
                       !.activations = [deactivated EXCEPT ![provider] = @ + 1]]
       ELSE im

registerProvider(im, name, provider, isFallback) ==
    LET set == [im EXCEPT !.providers[name] = provider,
                          !.fallbackProvider =
                              IF isFallback THEN provider ELSE @]
    IN IF set.activeProvider = NoProvider
       THEN setActiveProvider(set, name)
       ELSE set

\* The fallback provider is looked up again in the registry, by its own name.
fallbackToDefault(im) ==
    IF im.fallbackProvider # NoProvider /\ im.activeProvider # im.fallbackProvider
    THEN setActiveProvider(im, nameOf[im.fallbackProvider])
    ELSE im

\* The activate() and deactivate() calls the providers receive, in the order
\* setActiveProvider makes them.
setActiveProviderCalls(im, name) ==
    LET provider == providersGet(im, name)
    IN IF provider # NoProvider
       THEN (IF im.activeProvider # NoProvider
             THEN <<[call |-> "deactivate", provider |-> im.activeProvider]>>
             ELSE <<>>)
            \o <<[call |-> "activate", provider |-> provider]>>
       ELSE <<>>

registerProviderCalls(im, name, provider) ==
    IF im.activeProvider = NoProvider
    THEN setActiveProviderCalls([im EXCEPT !.providers[name] = provider], name)
    ELSE <<>>

fallbackToDefaultCalls(im) ==
    IF im.fallbackProvider # NoProvider /\ im.activeProvider # im.fallbackProvider
    THEN setActiveProviderCalls(im, nameOf[im.fallbackProvider])
    ELSE <<>>

\* GestureProvider.update and VoiceProvider.update (stubs).
stubUpdate(im) ==
    [im EXCEPT !.moveVector = Point(0, 0), !.fire = FALSE]

\* The KeyboardMouseProvider after its constructor.
NewKeyboardMouse == [keys |-> {}, mouseButtons |-> {}]

\* 1 / sqrt(2) in thousandths: a diagonal of the keyboard vector.
Diagonal(n) == n * ((1000 * 1000) \div ISqrt(2 * 1000 * 1000))

\* KeyboardMouseProvider.update: the move vector (in thousandths) from the
\* held directions, the fire flag from the left button, the pickup flag
\* from the F key.
keyboardMouseUpdate(im, km) ==
    LET x == (IF "right" \in km.keys THEN 1 ELSE 0)
             - (IF "left" \in km.keys THEN 1 ELSE 0)
        y == (IF "down" \in km.keys THEN 1 ELSE 0)
             - (IF "up" \in km.keys THEN 1 ELSE 0)
    IN [im EXCEPT
          !.moveVector = IF x # 0 /\ y # 0
                         THEN Point(Diagonal(x), Diagonal(y))
                         ELSE Point(1000 * x, 1000 * y),
          !.fire = 0 \in km.mouseButtons,
          !.pickup = "pickup" \in km.keys]

providerUpdate(im, km) ==
    IF im.activeProvider = "keyboardMouse"
    THEN keyboardMouseUpdate(im, km)
    ELSE stubUpdate(im)

\* InputManager.update: a provider whose update throws (fault) has the
\* error caught and the fallback tried.
inputManagerUpdate(im, km, fault) ==
    IF im.activeProvider = NoProvider THEN im
    ELSE IF fault THEN fallbackToDefault(im)
    ELSE providerUpdate(im, km)

----------------------------------------------------------------------------
(* Entities (gameplay.js: Player, enemies, projectiles, weapons, pickups). *)
(* Durations count in 1 / SECOND of a second, so that the pistol's         *)
(* interval of 0.2 s divides by 3, by 5 and by 15.                         *)

SECOND == 150

\* Positions, radii and distances count in 1 / PX of a pixel.
PX == 10

COLLISION_EPSILON == 1

SPAWN_SAFETY_DISTANCE == 150

PICKUP_SAFE_DISTANCE == 50

PICKUP_RADIUS == 28

\* Truncating division (the sign of the quotient is the numerator's).
TruncDiv(a, b) == IF a >= 0 THEN a \div b ELSE -((-a) \div b)

PLAYER_RADIUS == 16

PLAYER_MAX_HP == 3

PLAYER_SPEED == 200

INVULNERABLE_TIME == 150

PROJECTILE_RADIUS == 4

PROJECTILE_SPEED == 400

PROJECTILE_LIFETIME == 300

SHOOT_INTERVAL == 300

KNIFE_RANGE == 60

GRENADE_RADIUS == 80

\* projectile.owner: 'player', an enemy identifier, or null.
NoOwner == "null"

EnemyTypes == <<"assassin", "shooter", "tank">>

\* new ENEMY_REGISTRY[type](x, y)
NewEnemy(type, px, py) ==
    [type |-> type, x |-> px, y |-> py,
     radius |-> PX * (CASE type = "assassin" -> 12 [] type = "shooter" -> 14
                        [] type = "tank" -> 20),
     hp |-> CASE type = "assassin" -> 1 [] type = "shooter" -> 2
              [] type = "tank" -> 3,
     damage |-> CASE type = "assassin" -> 1 [] type = "shooter" -> 1
                  [] type = "tank" -> 2,
     speed |-> CASE type = "assassin" -> 150 [] type = "shooter" -> 50
                 [] type = "tank" -> 25,
     shootTimer |-> 0]

\* new Player(x, y); weapon is the key of the equipped weapon.
NewPlayer(px, py) ==
    [x |-> px, y |-> py, radius |-> PX * PLAYER_RADIUS,
     hp |-> PLAYER_MAX_HP, maxHp |-> PLAYER_MAX_HP,
     invulnerable |-> 0, weapon |-> "none", creatorMode |-> FALSE]

\* new WEAPON_REGISTRY[key](): fireRate is the time between two shots,
\* currentAmmo -1 stands for an infinite supply.
NewWeapons ==
    [pistol |-> [fireRate |-> SECOND \div 5, cooldown |-> 0,
                 currentAmmo |-> -1, damage |-> 1],
     machine_gun |-> [fireRate |-> SECOND \div 10, cooldown |-> 0,
                      currentAmmo |-> 30, damage |-> 1],
     knife |-> [fireRate |-> SECOND \div 2, cooldown |-> 0,
                currentAmmo |-> -1, damage |-> 2],
     grenade |-> [fireRate |-> SECOND, cooldown |-> 0,
                  currentAmmo |-> 3, damage |-> 3]]

PICKUP_TYPES == <<"mg_ammo", "grenade", "heal", "pistol_haste">>

\* new Pickup(x, y, type)
NewPickup(px, py, type) ==
    [x |-> px, y |-> py, radius |-> PX * PICKUP_RADIUS, type |-> type]

NoPickup == [has |-> FALSE, x |-> 0, y |-> 0, type |-> ""]

SomePickup(pk) == [has |-> TRUE, x |-> pk.x, y |-> pk.y, type |-> pk.type]

\* new Projectile(...): a bullet or a grenade flying with velocity (vx, vy)
\* per second.
NewProjectile(kind, px, py, vx, vy, damage, owner) ==
    [kind |-> kind, x |-> px, y |-> py, vx |-> vx, vy |-> vy,
     radius |-> PX * PROJECTILE_RADIUS, damage |-> damage, owner |-> owner,
     alive |-> TRUE, life |-> PROJECTILE_LIFETIME]

isAlive(entity) == entity.hp > 0

canTakeDamage(player) == player.invulnerable <= 0

\* Player.takeDamage: the hit opens the invulnerability window.
playerTakeDamage(player, damage) ==
    [player EXCEPT !.hp = Max(0, @ - damage), !.invulnerable = INVULNERABLE_TIME]

\* Enemy.takeDamage
enemyTakeDamage(enemy, damage) == [enemy EXCEPT !.hp = Max(0, @ - damage)]

\* Utils.distance, squared.
distanceSq(x1, y1, x2, y2) == (x2 - x1) * (x2 - x1) + (y2 - y1) * (y2 - y1)

\* Utils.distance(x1, y1, x2, y2) < limit, for a limit that is a whole
\* number of position units.
distanceBelow(x1, y1, x2, y2, limit) ==
    distanceSq(x1, y1, x2, y2) < limit * limit

\* The mutant: the circles must overlap, touching is no collision.
checkCircleCollisionStrict(obj1, obj2) ==
    LET R == obj1.radius + obj2.radius
    IN distanceSq(obj1.x, obj1.y, obj2.x, obj2.y) < R * R

\* CollisionSystem.checkCircleCollision: distance < r1 + r2 + 0.001 px.
\* With R = r1 + r2 and the epsilon 1 / E of a position unit, the test
\* d < R + 1/E is E * E * (d * d - R * R) < 2 * R * E + 1.
checkCircleCollision(obj1, obj2) ==
    LET R == obj1.radius + obj2.radius
        E == 1000 \div (PX * COLLISION_EPSILON)
        diff == distanceSq(obj1.x, obj1.y, obj2.x, obj2.y) - R * R
    IN diff <= 0 \/ (diff <= R /\ E * E * diff < 2 * R * E + 1)

NoInfo == [has |-> FALSE, overlap |-> 0, normalX |-> 0, normalY |-> 0,
           distance |-> 0]

\* CollisionSystem.getCollisionInfo: null when distance >= r1 + r2 + 0.001
\* px; else the overlap and the distance (rounded down to position units)
\* and the unit normal from obj1 to obj2 (thousandths), (1, 0) at distance 0.
getCollisionInfo(obj1, obj2) ==
    LET dx == obj2.x - obj1.x
        dy == obj2.y - obj1.y
        minDistance == obj1.radius + obj2.radius
        E == 1000 \div (PX * COLLISION_EPSILON)
        diff == dx * dx + dy * dy - minDistance * minDistance
        distance == ISqrt(dx * dx + dy * dy)
    IN IF diff > 0 /\ (diff > minDistance
                       \/ E * E * diff >= 2 * minDistance * E + 1)
       THEN NoInfo
       ELSE [has |-> TRUE,
             overlap |-> minDistance - distance,
             normalX |-> IF dx * dx + dy * dy > 0
                         THEN (dx * 1000) \div distance ELSE 1000,
             normalY |-> IF dx * dx + dy * dy > 0
                         THEN (dy * 1000) \div distance ELSE 0,
             distance |-> distance]

\* The vector of the given length from (x, y) towards (tx, ty).
Scaled(dx, dy, length, dist) ==
    IF dist = 0 THEN Point(0, 0)
    ELSE Point(TruncDiv(dx * length, dist), TruncDiv(dy * length, dist))

Toward(x, y, tx, ty, length) ==
    Scaled(tx - x, ty - y, length, ISqrt(distanceSq(x, y, tx, ty)))

\* Player.update: the move vector (thousandths) moves the player inside the
\* arena; the invulnerability window runs down.
playerUpdate(player, dt, v) ==
    [player EXCEPT
       !.x = clamp(@ + TruncDiv(v.x * PLAYER_SPEED * PX * dt, 1000 * SECOND),
                   player.radius, ARENA_WIDTH * PX - player.radius),
       !.y = clamp(@ + TruncDiv(v.y * PLAYER_SPEED * PX * dt, 1000 * SECOND),
                   player.radius, ARENA_HEIGHT * PX - player.radius),
       !.invulnerable = Max(0, @ - dt)]

\* Knife: every enemy within reach of the player is damaged.
knifeSweep(player, enemies, damage) ==
    [i \in 1..Len(enemies) |->
        IF distanceBelow(player.x, player.y, enemies[i].x, enemies[i].y,
                         KNIFE_RANGE * PX + enemies[i].radius)
        THEN enemyTakeDamage(enemies[i], damage)
        ELSE enemies[i]]

\* Player.fire(aimX, aimY, projectiles, enemies) on the Game g: nothing
\* unless the equipped weapon has cooled down and has ammunition.
playerFire(g, aimX, aimY) ==
    LET key == g.player.weapon
        weapon == g.weapons[key]
        v == Toward(g.player.x, g.player.y, aimX, aimY, PROJECTILE_SPEED * PX)
        fired == [g EXCEPT
                    !.weapons[key].cooldown = weapon.fireRate,
                    !.weapons[key].currentAmmo = IF @ > 0 THEN @ - 1 ELSE @]
    IN IF weapon.cooldown > 0 \/ weapon.currentAmmo = 0 THEN g
       ELSE CASE key = "knife" ->
                   [fired EXCEPT !.enemies =
                       knifeSweep(g.player, g.enemies, weapon.damage)]
              [] key = "grenade" ->
                   [fired EXCEPT !.projectiles = Append(@,
                       NewProjectile("grenade", g.player.x, g.player.y,
                                     TruncDiv(v.x, 2), TruncDiv(v.y, 2),
                                     weapon.damage, NoOwner))]
              [] OTHER ->
                   [fired EXCEPT !.projectiles = Append(@,
                       NewProjectile("bullet", g.player.x, g.player.y,
                                     v.x, v.y, weapon.damage, "player"))]

\* Enemy.update: a straight-line seek of the player.
Moved(entity, step) ==
    [entity EXCEPT !.x = @ + TruncDiv(step.x, SECOND),
                   !.y = @ + TruncDiv(step.y, SECOND)]

enemyMove(enemy, dt, player) ==
    Moved(enemy, Toward(enemy.x, enemy.y, player.x, player.y,
                        enemy.speed * PX * dt))

\* Shooter: the timer runs, and a shot leaves when it has run out.
enemyAfter(moved, dt) ==
    IF moved.type # "shooter" THEN moved
    ELSE [moved EXCEPT !.shootTimer =
             IF @ + dt >= SHOOT_INTERVAL THEN 0 ELSE @ + dt]

shotsAfter(projectiles, moved, dt, player, v) ==
    IF moved.type = "shooter" /\ moved.shootTimer + dt >= SHOOT_INTERVAL
    THEN Append(projectiles,
                NewProjectile("bullet", moved.x, moved.y, v.x, v.y,
                              moved.damage, "shooter"))
    ELSE projectiles

enemyStep(st, i, moved, dt, player) ==
    [enemies |-> [st.enemies EXCEPT ![i] = enemyAfter(moved, dt)],
     projectiles |->
         shotsAfter(st.projectiles, moved, dt, player,
                    IF moved.type = "shooter"
                    THEN Toward(moved.x, moved.y, player.x, player.y,
                                (PROJECTILE_SPEED * PX) \div 2)
                    ELSE Point(0, 0))]

\* Every enemy's update, in list order; a shooter whose timer has run out
\* adds a projectile aimed at the player: st = [enemies, projectiles].
RECURSIVE updateEnemies(_, _, _, _)
updateEnemies(st, i, dt, player) ==
    IF i > Len(st.enemies) THEN st
    ELSE updateEnemies(
            enemyStep(st, i, enemyMove(st.enemies[i], dt, player), dt, player),
            i + 1, dt, player)

InBounds(p) ==
    /\ p.x >= 0 /\ p.x <= ARENA_WIDTH * PX
    /\ p.y >= 0 /\ p.y <= ARENA_HEIGHT * PX

\* GrenadeProjectile: the explosion damages every enemy within its radius.
explode(p, enemies) ==
    [i \in 1..Len(enemies) |->
        IF distanceBelow(p.x, p.y, enemies[i].x, enemies[i].y,
                         GRENADE_RADIUS * PX + enemies[i].radius)
        THEN enemyTakeDamage(enemies[i], p.damage)
        ELSE enemies[i]]

\* Every projectile's update, in list order: straight-line motion until
\* out of bounds or the end of its life; a live grenade explodes next to an
\* enemy or at the end of its life: st = [projectiles, enemies].
projectileMove(p, dt) ==
    [p EXCEPT !.x = @ + TruncDiv(p.vx * dt, SECOND),
              !.y = @ + TruncDiv(p.vy * dt, SECOND),
              !.life = Max(0, @ - dt)]

Touching(moved, enemies) ==
    \E j \in 1..Len(enemies) :
        isAlive(enemies[j]) /\ checkCircleCollision(moved, enemies[j])

projectileStep(st, i, moved, spent, bang) ==
    [projectiles |-> [st.projectiles EXCEPT ![i] =
         [moved EXCEPT !.alive = @ /\ ~spent /\ ~bang]],
     enemies |-> IF bang THEN explode(moved, st.enemies) ELSE st.enemies]

projectileFate(st, i, moved, spent) ==
    projectileStep(st, i, moved, spent,
        /\ moved.kind = "grenade"
        /\ moved.alive
        /\ (spent \/ Touching(moved, st.enemies)))

RECURSIVE updateProjectiles(_, _, _)
updateProjectiles(st, i, dt) ==
    IF i > Len(st.projectiles) THEN st
    ELSE updateProjectiles(
            projectileFate(st, i, projectileMove(st.projectiles[i], dt),
                \/ st.projectiles[i].life - dt <= 0
                \/ ~InBounds(projectileMove(st.projectiles[i], dt))),
            i + 1, dt)

\* Weapon.update for every weapon: the cooldown runs down.
updateWeapons(weapons, dt) ==
    [key \in DOMAIN weapons |->
        [weapons[key] EXCEPT !.cooldown = Max(0, @ - dt)]]

----------------------------------------------------------------------------
(* Game: collision resolution.  The operators below take and return the   *)
(* Game object g; log collects what a call did (pickups collected, kills   *)
(* counted, enemies that died, toggles applied).                           *)

NoLog ==
    [collected |-> <<>>, kills |-> 0, deaths |-> 0,
     weaponToggles |-> 0, creatorToggles |-> 0, pinchRaised |-> FALSE,
     spawnedEnemies |-> 0, spawnedPickups |-> 0, gameOverHp |-> <<>>,
     moved |-> <<>>, fired |-> <<>>, dts |-> <<>>, pinchEdge |-> FALSE,
     requested |-> 0, switched |-> <<>>]

\* recomputePistolFireRate: base / 3 under haste, base otherwise.
recomputePistolFireRate(g) ==
    [g EXCEPT !.weapons.pistol.fireRate =
        g.pistolBaseFireRate \div (IF g.pistolHasteActive THEN 3 ELSE 1)]

HASTE_DURATION == 1500

\* The mutant: a haste pickup divides the pistol's current interval by 3.
applyPickupEffectStacking(g, type) ==
    CASE type = "mg_ammo" ->
           [g EXCEPT !.weapons.machine_gun.currentAmmo = @ + 20]
      [] type = "grenade" ->
           [g EXCEPT !.weapons.grenade.currentAmmo = @ + 5]
      [] type = "heal" ->
           [g EXCEPT !.player.hp = Min(g.player.maxHp, @ + 1)]
      [] type = "pistol_haste" ->
           [g EXCEPT !.pistolHasteActive = TRUE,
                     !.pistolHasteRemaining = HASTE_DURATION,
                     !.weapons.pistol.fireRate = @ \div 3]
      [] OTHER -> g

applyPickupEffect(g, type) ==
    CASE type = "mg_ammo" ->
           [g EXCEPT !.weapons.machine_gun.currentAmmo = @ + 20]
      [] type = "grenade" ->
           [g EXCEPT !.weapons.grenade.currentAmmo = @ + 5]
      [] type = "heal" ->
           [g EXCEPT !.player.hp = Min(g.player.maxHp, @ + 1)]
      [] type = "pistol_haste" ->
           recomputePistolFireRate(
               [g EXCEPT !.pistolHasteActive = TRUE,
                         !.pistolHasteRemaining = HASTE_DURATION])
      [] OTHER -> g

\* Player vs enemies: contact damage while the player can take damage.
RECURSIVE contactDamage(_, _, _)
contactDamage(player, enemies, i) ==
    IF i > Len(enemies) THEN player
    ELSE contactDamage(
            IF checkCircleCollision(player, enemies[i]) /\ canTakeDamage(player)
            THEN playerTakeDamage(player, enemies[i].damage)
            ELSE player,
            enemies, i + 1)

\* One player projectile against every enemy, in list order:
\* st = [enemies, hit, kills].
RECURSIVE projectileVsEnemies(_, _, _)
projectileVsEnemies(projectile, st, j) ==
    IF j > Len(st.enemies) THEN st
    ELSE IF checkCircleCollision(projectile, st.enemies[j])
    THEN LET hurt == enemyTakeDamage(st.enemies[j], projectile.damage)
         IN projectileVsEnemies(projectile,
                [enemies |-> [st.enemies EXCEPT ![j] = hurt],
                 hit |-> TRUE,
                 kills |-> st.kills + (IF ~isAlive(hurt) THEN 1 ELSE 0)],
                j + 1)
    ELSE projectileVsEnemies(projectile, st, j + 1)

\* Every player-owned projectile, in list order:
\* st = [enemies, projectiles, kills].
RECURSIVE playerProjectiles(_, _)
playerProjectiles(st, i) ==
    IF i > Len(st.projectiles) THEN st
    ELSE IF st.projectiles[i].owner = "player"
    THEN LET r == projectileVsEnemies(st.projectiles[i],
                     [enemies |-> st.enemies, hit |-> FALSE, kills |-> st.kills],
                     1)
         IN playerProjectiles(
                [enemies |-> r.enemies,
                 projectiles |-> IF r.hit
                                 THEN [st.projectiles EXCEPT ![i].alive = FALSE]
                                 ELSE st.projectiles,
                 kills |-> r.kills],
                i + 1)
    ELSE playerProjectiles(st, i + 1)

\* The mutant: every projectile that is not the player's strikes the player.
strikesPlayerUnowned(projectile, player) ==
    /\ projectile.owner # "player"
    /\ checkCircleCollision(projectile, player)

\* A projectile of an enemy (its owner neither 'player' nor null) that
\* overlaps the player.
strikesPlayer(projectile, player) ==
    /\ projectile.owner # "player"
    /\ projectile.owner # NoOwner
    /\ checkCircleCollision(projectile, player)

\* The mutant: a projectile of an enemy on the player is deactivated whether
\* or not its damage is applied.
RECURSIVE enemyProjectilesSpent(_, _)
enemyProjectilesSpent(st, i) ==
    IF i > Len(st.projectiles) THEN st
    ELSE IF strikesPlayer(st.projectiles[i], st.player)
    THEN enemyProjectilesSpent(
            [player |-> IF canTakeDamage(st.player)
                        THEN playerTakeDamage(st.player, st.projectiles[i].damage)
                        ELSE st.player,
             projectiles |-> [st.projectiles EXCEPT ![i].alive = FALSE]],
            i + 1)
    ELSE enemyProjectilesSpent(st, i + 1)

\* Every projectile of an enemy against the player:
\* st = [player, projectiles].
RECURSIVE enemyProjectiles(_, _)
enemyProjectiles(st, i) ==
    IF i > Len(st.projectiles) THEN st
    ELSE IF /\ strikesPlayer(st.projectiles[i], st.player)
            /\ canTakeDamage(st.player)
    THEN enemyProjectiles(
            [player |-> playerTakeDamage(st.player, st.projectiles[i].damage),
             projectiles |-> [st.projectiles EXCEPT ![i].alive = FALSE]],
            i + 1)
    ELSE enemyProjectiles(st, i + 1)

\* The mutant: of pickups at the same distance the later one wins.
RECURSIVE nearestPickupLast(_, _, _, _)
nearestPickupLast(player, pickups, st, i) ==
    IF i > Len(pickups) THEN st
    ELSE LET d == distanceSq(player.x, player.y, pickups[i].x, pickups[i].y)
         IN IF /\ checkCircleCollision(player, pickups[i])
               /\ (st.index = 0 \/ d <= st.distSq)
            THEN nearestPickupLast(player, pickups,
                                   [index |-> i, distSq |-> d], i + 1)
            ELSE nearestPickupLast(player, pickups, st, i + 1)

\* The index of the overlapping pickup nearest to the player, 0 for none
\* (st = [index, distSq]); a later pickup wins only when strictly nearer.
RECURSIVE nearestPickup(_, _, _, _)
nearestPickup(player, pickups, st, i) ==
    IF i > Len(pickups) THEN st
    ELSE LET d == distanceSq(player.x, player.y, pickups[i].x, pickups[i].y)
         IN IF /\ checkCircleCollision(player, pickups[i])
               /\ (st.index = 0 \/ d < st.distSq)
            THEN nearestPickup(player, pickups, [index |-> i, distSq |-> d], i + 1)
            ELSE nearestPickup(player, pickups, st, i + 1)

RemoveAt(seq, i) == SubSeq(seq, 1, i - 1) \o SubSeq(seq, i + 1, Len(seq))

Count(seq, Test(_)) == Len(SelectSeq(seq, Test))

\* The enemies of before that are alive and, at the same index of after,
\* are not.
RECURSIVE Died(_, _, _)
Died(before, after, i) ==
    IF i > Len(before) THEN 0
    ELSE (IF isAlive(before[i]) /\ ~isAlive(after[i]) THEN 1 ELSE 0)
         + Died(before, after, i + 1)

\* Player vs enemies.
contactStep(w) ==
    [w EXCEPT !.game.player = contactDamage(w.game.player, w.game.enemies, 1)]

\* Player projectiles vs enemies: shots is what playerProjectiles returns.
applyShots(w, shots) ==
    [w EXCEPT !.game.enemies = shots.enemies,
              !.game.projectiles = shots.projectiles,
              !.game.killCount = @ + shots.kills,
              !.log.kills = @ + shots.kills,
              !.log.deaths = @ + Died(w.game.enemies, shots.enemies, 1)]

playerShotStep(w) ==
    applyShots(w, playerProjectiles(
                      [enemies |-> w.game.enemies,
                       projectiles |-> w.game.projectiles, kills |-> 0], 1))

\* Enemy projectiles vs player: hits is what enemyProjectiles returns.
applyHits(w, hits) ==
    [w EXCEPT !.game.player = hits.player,
              !.game.projectiles = hits.projectiles]

enemyShotStep(w) ==
    applyHits(w, enemyProjectiles(
                     [player |-> w.game.player,
                      projectiles |-> w.game.projectiles], 1))

\* The mutant: the candidate is collected on touch, with no confirmation.
confirmPickupOnTouch(w, gi, index) ==
    IF index = 0
    THEN [w EXCEPT !.game.pickupCandidate = NoPickup]
    ELSE [w EXCEPT
            !.game = [applyPickupEffect(w.game, w.game.pickups[index].type)
                        EXCEPT !.pickups = RemoveAt(w.game.pickups, index),
                               !.pickupCandidate = NoPickup],
            !.log.collected = Append(@,
                [pickup |-> w.game.pickups[index],
                 player |-> Point(w.game.player.x, w.game.player.y),
                 pickups |-> w.game.pickups])]

\* Player vs pickups: the nearest overlapping pickup (at index, 0 for none)
\* is the candidate, and is collected while the F key is held or the right
\* pinch is active.
confirmPickup(w, gi, index) ==
    IF index = 0
    THEN [w EXCEPT !.game.pickupCandidate = NoPickup]
    ELSE IF w.im.pickup \/ gi.rightPinchActive
    THEN [w EXCEPT
            !.game = [applyPickupEffect(w.game, w.game.pickups[index].type)
                        EXCEPT !.pickups = RemoveAt(w.game.pickups, index),
                               !.pickupCandidate = NoPickup],
            !.log.collected = Append(@,
                [pickup |-> w.game.pickups[index],
                 player |-> Point(w.game.player.x, w.game.player.y),
                 pickups |-> w.game.pickups])]
    ELSE [w EXCEPT !.game.pickupCandidate = SomePickup(w.game.pickups[index])]

pickupStep(w, gi) ==
    confirmPickup(w, gi,
        nearestPickup(w.game.player, w.game.pickups,
                      [index |-> 0, distSq |-> 0], 1).index)

\* Game.handleCollisions on w = [game, im, log].
handleCollisions(w, gi) ==
    pickupStep(enemyShotStep(playerShotStep(contactStep(w))), gi)

----------------------------------------------------------------------------
(* Game: construction, the tick and the restart.                           *)

\* InputManager.canSwitchWeapon and canToggleCreatorMode at Date.now() = now.
canSwitchWeaponAlways(im, now) == TRUE

canSwitchWeapon(im, now) ==
    now - im.lastWeaponSwitchTime >= weaponSwitchCooldown

canToggleCreatorMode(im, now) ==
    now - im.lastCreatorModeToggleTime >= creatorModeToggleCooldown

\* The mutant: the flag is lowered, the time of the clear is not recorded.
clearWeaponSwitchNoStamp(im, now) == [im EXCEPT !.switchWeapon = FALSE]

clearWeaponSwitch(im, now) ==
    [im EXCEPT !.switchWeapon = FALSE, !.lastWeaponSwitchTime = now]

clearCreatorModeToggle(im, now) ==
    [im EXCEPT !.creatorMode = FALSE, !.lastCreatorModeToggleTime = now]

KeyCodes ==
    {"KeyW", "KeyS", "KeyA", "KeyD", "ArrowUp", "ArrowDown", "ArrowLeft",
     "ArrowRight", "KeyR", "KeyG", "KeyF", "Enter"}

\* this.keyMap[event.code], "" standing for undefined.
keyMap(code) ==
    CASE code \in {"KeyW", "ArrowUp"} -> "up"
      [] code \in {"KeyS", "ArrowDown"} -> "down"
      [] code \in {"KeyA", "ArrowLeft"} -> "left"
      [] code \in {"KeyD", "ArrowRight"} -> "right"
      [] code = "KeyR" -> "switchWeapon"
      [] code = "KeyG" -> "creatorMode"
      [] code = "KeyF" -> "pickup"
      [] OTHER -> ""

\* KeyboardMouseProvider.handleKeyDown on k = [im, km].
handleKeyDown(k, code, now) ==
    LET action == keyMap(code)
    IN CASE action = "" -> k
         [] action = "switchWeapon" ->
              IF ~k.im.switchWeapon /\ canSwitchWeapon(k.im, now)
              THEN [k EXCEPT !.im.switchWeapon = TRUE]
              ELSE k
         [] action = "creatorMode" ->
              IF ~k.im.creatorMode /\ canToggleCreatorMode(k.im, now)
              THEN [k EXCEPT !.im.creatorMode = TRUE]
              ELSE k
         [] OTHER ->
              [k EXCEPT !.km.keys = @ \cup {action},
                        !.im.pickup = IF action = "pickup" THEN TRUE ELSE @]

\* KeyboardMouseProvider.handleKeyUp on k = [im, km].
handleKeyUp(k, code) ==
    LET action == keyMap(code)
    IN IF action # "" /\ action # "switchWeapon" /\ action # "creatorMode"
       THEN [k EXCEPT !.km.keys = @ \ {action},
                      !.im.pickup = IF action = "pickup" THEN FALSE ELSE @]
       ELSE k

\* Game.setupInput on a new InputManager.
setupInput(im) ==
    setActiveProvider(
        registerProvider(
            registerProvider(
                registerProvider(im, "keyboard-mouse", "keyboardMouse", TRUE),
                "gesture", "gesture", FALSE),
            "voice", "voice", FALSE),
        "keyboard-mouse")

\* GAME_STATES
GAME_STATES ==
    {"boot", "menu", "playing", "paused", "upgrade_pick", "game_over"}

\* The mutant: the state is set without the early return.
setStateAlways(g, newState) ==
    [g EXCEPT !.previousState = g.currentState, !.currentState = newState]

\* GameStateMachine.setState, the two fields of the machine.
setState(g, newState) ==
    IF g.currentState = newState THEN g
    ELSE [g EXCEPT !.previousState = g.currentState,
                   !.currentState = newState]

\* GameStateMachine.setState, the events it emits on the machine's bus:
\* none on the early return, else one 'stateChanged' whose from is
\* previousState as just assigned.
setStateEmits(g, newState) ==
    IF g.currentState = newState THEN <<>>
    ELSE <<[event |-> "stateChanged",
            from |-> setState(g, newState).previousState,
            to |-> newState]>>

\* The mutant: the lists and the kill counter of the last game are kept.
initGameObjectsKeeping(g) ==
    recomputePistolFireRate(
        [g EXCEPT
           !.player = [NewPlayer((ARENA_WIDTH * PX) \div 2,
                                 (ARENA_HEIGHT * PX) \div 2)
                         EXCEPT !.weapon = "pistol"],
           !.weapons = NewWeapons,
           !.currentWeaponKey = "pistol",
           !.enemySpawnTimer = 0,
           !.pickupSpawnTimer = 0,
           !.originalPistolFireRate = NewWeapons.pistol.fireRate,
           !.pistolBaseFireRate = NewWeapons.pistol.fireRate,
           !.pistolHasteActive = FALSE,
           !.pistolHasteRemaining = 0])

initGameObjects(g) ==
    recomputePistolFireRate(
        [g EXCEPT
           !.player = [NewPlayer((ARENA_WIDTH * PX) \div 2,
                                 (ARENA_HEIGHT * PX) \div 2)
                         EXCEPT !.weapon = "pistol"],
           !.weapons = NewWeapons,
           !.currentWeaponKey = "pistol",
           !.enemies = <<>>,
           !.projectiles = <<>>,
           !.pickups = <<>>,
           !.killCount = 0,
           !.enemySpawnTimer = 0,
           !.pickupSpawnTimer = 0,
           !.originalPistolFireRate = NewWeapons.pistol.fireRate,
           !.pistolBaseFireRate = NewWeapons.pistol.fireRate,
           !.pistolHasteActive = FALSE,
           !.pistolHasteRemaining = 0])

\* The Game after its constructor and init().
\* The Game after its constructor: the state machine in BOOT, no entities
\* yet (the player and the weapons stand for null).
(* EventBus: listeners maps an event to the array of its callbacks; an    *)
(* event the Map does not hold behaves as one with an empty array. A      *)
(* callback is [id, off]: when called it unsubscribes the callback whose  *)
(* id is off (0 for none) from the event that is being emitted.           *)

BusEvents == {"stateChanged", "gameOver"}

NewEventBus == [listeners |-> [event \in BusEvents |-> <<>>]]

\* EventBus.on
on(bus, event, callback) ==
    [bus EXCEPT !.listeners[event] = Append(@, callback)]

\* callbacks.indexOf(callback), 0 for -1.
indexOf(callbacks, callback) ==
    IF \E i \in 1..Len(callbacks) : callbacks[i] = callback
    THEN CHOOSE i \in 1..Len(callbacks) :
            /\ callbacks[i] = callback
            /\ \A j \in 1..(i - 1) : callbacks[j] # callback
    ELSE 0

\* EventBus.off
off(bus, event, callback) ==
    LET index == indexOf(bus.listeners[event], callback)
    IN IF index > 0
       THEN [bus EXCEPT !.listeners[event] =
                SubSeq(@, 1, index - 1) \o SubSeq(@, index + 1, Len(@))]
       ELSE bus

\* The call of a callback during an emit of event.
callCallback(bus, event, callback, known) ==
    IF callback.off = 0 THEN bus
    ELSE off(bus, event, CHOOSE c \in known : c.id = callback.off)

\* Array.prototype.forEach over the array of the event, which the callbacks
\* change while it runs: the indices up to the length at the start are
\* visited in order, those the array no longer has are passed over
\* (st = [bus, called]).
RECURSIVE forEach(_, _, _, _, _)
forEach(st, event, k, len, known) ==
    IF k > len THEN st
    ELSE IF k > Len(st.bus.listeners[event])
    THEN forEach(st, event, k + 1, len, known)
    ELSE LET callback == st.bus.listeners[event][k]
         IN forEach([bus |-> callCallback(st.bus, event, callback, known),
                     called |-> Append(st.called, callback.id)],
                    event, k + 1, len, known)

\* EventBus.emit
emit(bus, event, known) ==
    forEach([bus |-> bus, called |-> <<>>], event, 1,
            Len(bus.listeners[event]), known)

BootGame ==
    [eventBus |-> NewEventBus,
     currentState |-> "boot", previousState |-> "null",
     player |-> NewPlayer(0, 0), weapons |-> NewWeapons,
     currentWeaponKey |-> "pistol",
     enemies |-> <<>>, projectiles |-> <<>>, pickups |-> <<>>,
     killCount |-> 0, enemySpawnTimer |-> 0, pickupSpawnTimer |-> 0,
     creatorMode |-> FALSE,
     pistolHasteActive |-> FALSE, pistolHasteRemaining |-> 0,
     originalPistolFireRate |-> 0, pistolBaseFireRate |-> 0,
     pickupCandidate |-> NoPickup, gameOverScreenHidden |-> TRUE,
     isRunning |-> FALSE, prevLeftPinchActive |-> FALSE]

NewGame == setState(initGameObjects(BootGame), "playing")

weaponOrder == <<"pistol", "machine_gun", "knife", "grenade">>

IndexOf(seq, value) == CHOOSE i \in 1..Len(seq) : seq[i] = value

\* The mutant: the weapon switched to is a new object.
toggleWeaponFresh(g) ==
    LET next == weaponOrder[(IndexOf(weaponOrder, g.currentWeaponKey)
                             % Len(weaponOrder)) + 1]
    IN [g EXCEPT !.currentWeaponKey = next, !.player.weapon = next,
                 !.weapons[next] = NewWeapons[next]]

toggleWeapon(g) ==
    LET next == weaponOrder[(IndexOf(weaponOrder, g.currentWeaponKey)
                             % Len(weaponOrder)) + 1]
    IN [g EXCEPT !.currentWeaponKey = next, !.player.weapon = next]

toggleCreatorMode(g) ==
    IF ~g.creatorMode
    THEN recomputePistolFireRate(
             [g EXCEPT !.creatorMode = TRUE,
                       !.pistolBaseFireRate = g.originalPistolFireRate \div 5])
    ELSE recomputePistolFireRate(
             [g EXCEPT !.creatorMode = FALSE,
                       !.pistolBaseFireRate = g.originalPistolFireRate])

ENEMY_SPAWN_INTERVAL == 300

PICKUP_SPAWN_INTERVAL == 1200

SPAWN_MARGIN == 50

PICKUP_DRAWS == 40

\* The point of an edge (0 top, 1 right, 2 bottom, 3 left) that a draw of
\* randomRange picks: along = (x, y) holds the draw for either axis.
edgePoint(edge, along) ==
    CASE edge = 0 -> Point(along.x, -(SPAWN_MARGIN * PX))
      [] edge = 1 -> Point((ARENA_WIDTH + SPAWN_MARGIN) * PX, along.y)
      [] edge = 2 -> Point(along.x, (ARENA_HEIGHT + SPAWN_MARGIN) * PX)
      [] edge = 3 -> Point(-(SPAWN_MARGIN * PX), along.y)

\* The mutant: the first position is kept without the safety check.
spawnEnemyUnchecked(g, rnd) ==
    LET at == edgePoint(rnd.edge, rnd.first)
    IN [g EXCEPT !.enemies =
            Append(@, NewEnemy(EnemyTypes[rnd.enemyType], at.x, at.y))]

\* Game.spawnEnemy; rnd holds what Math.random yields: the type, the edge
\* and the draws along the edge and along the opposite edge.
spawnEnemy(g, rnd) ==
    LET first == edgePoint(rnd.edge, rnd.first)
        at == IF distanceBelow(first.x, first.y, g.player.x, g.player.y,
                               SPAWN_SAFETY_DISTANCE * PX)
              THEN edgePoint((rnd.edge + 2) % 4, rnd.second)
              ELSE first
    IN [g EXCEPT !.enemies =
            Append(@, NewEnemy(EnemyTypes[rnd.enemyType], at.x, at.y))]

\* The draw the loop of spawnPickup ends with: the first of the draws at
\* the safe distance from the player or, failing that, the last one.
RECURSIVE pickupDraw(_, _, _)
pickupDraw(draws, player, i) ==
    IF i >= PICKUP_DRAWS
       \/ ~distanceBelow(draws[i].x, draws[i].y, player.x, player.y,
                         PICKUP_SAFE_DISTANCE * PX)
    THEN draws[i]
    ELSE pickupDraw(draws, player, i + 1)

\* Game.spawnPickup
spawnPickup(g, rnd) ==
    LET at == pickupDraw(rnd.draws, g.player, 1)
    IN [g EXCEPT !.pickups =
            Append(@, NewPickup(at.x, at.y, PICKUP_TYPES[rnd.pickupType]))]

\* A coordinate of the aim or the mouse (1 / AimScale px) in position units.
aimToPosition(a) == TruncDiv(a * PX, AimScale)

Alive(entity) == isAlive(entity)

StillFlying(projectile) == projectile.alive

\* The mutant: the two channels added up, each axis kept within [-1, 1].
blendedVector(keyboardVector, gestureVector) ==
    Point(Max(-1000, Min(1000, keyboardVector.x + gestureVector.x)),
          Max(-1000, Min(1000, keyboardVector.y + gestureVector.y)))

\* updatePlaying, the vector of hybridInput.getMoveVector (thousandths): the
\* keyboard's when one of its axes exceeds 0.01, the gesture's otherwise.
finalVector(keyboardVector, gestureVector) ==
    LET keyboardActive == Abs(keyboardVector.x) > 10 \/ Abs(keyboardVector.y) > 10
    IN IF keyboardActive THEN keyboardVector ELSE gestureVector

\* The gesture channel's vector as updatePlaying reads it.
gestureVectorOf(gi) ==
    IF gi.initialized THEN getMoveVector(gi) ELSE Point(0, 0)

\* updatePlaying, the player's move: player.update with the vector of the
\* hybrid input; log.moved records the vector handed over.
moveStep(w, gi, dt) ==
    LET v == finalVector(w.im.moveVector, gestureVectorOf(gi))
    IN [w EXCEPT !.game.player =
                    playerUpdate([@ EXCEPT !.creatorMode = w.game.creatorMode],
                                 dt, v),
                 !.log.moved = Append(@, v)]

\* The mutant: the mouse alone fires, the gesture's aim point is ignored.
fireStepMouseOnly(w, gi) ==
    IF w.im.fire
    THEN [w EXCEPT !.game = playerFire(@, aimToPosition(w.im.mouseX),
                                       aimToPosition(w.im.mouseY)),
                   !.log.fired = Append(@, Point(aimToPosition(w.im.mouseX),
                                                 aimToPosition(w.im.mouseY)))]
    ELSE w

\* updatePlaying, firing: towards the gesture's aim point while gesture
\* shooting is active, towards the mouse while the button is held;
\* log.fired records the aim point of each call of player.fire.
fireStep(w, gi) ==
    LET aim == IF isGestureShootingActive(gi) THEN getGestureAimTargetGame(gi)
               ELSE NoPoint
    IN IF isGestureShootingActive(gi)
       THEN IF aim.has
            THEN [w EXCEPT
                    !.im.mouseX = aim.x * AimScale,
                    !.im.mouseY = aim.y * AimScale,
                    !.game = playerFire(@, aim.x * PX, aim.y * PX),
                    !.log.fired = Append(@, Point(aim.x * PX, aim.y * PX))]
            ELSE w
       ELSE IF w.im.fire
            THEN [w EXCEPT !.game = playerFire(@, aimToPosition(w.im.mouseX),
                                               aimToPosition(w.im.mouseY)),
                           !.log.fired =
                               Append(@, Point(aimToPosition(w.im.mouseX),
                                               aimToPosition(w.im.mouseY)))]
            ELSE w

\* The mutant: the pinch raises the weapon switch for as long as it is
\* held.
leftPinchStepLevel(w, gi, now) ==
    LET raise == gi.leftPinchActive /\ canSwitchWeapon(w.im, now)
    IN [w EXCEPT !.im.switchWeapon = IF raise THEN TRUE ELSE @,
                 !.log.pinchRaised = @ \/ raise,
                 !.log.pinchEdge =
                     @ \/ (gi.leftPinchActive /\ ~w.game.prevLeftPinchActive),
                 !.game.prevLeftPinchActive = gi.leftPinchActive]

\* updatePlaying, the rising edge of the left pinch raises the weapon
\* switch when the cooldown allows it; log.pinchEdge records the edge.
leftPinchStep(w, gi, now) ==
    LET edge == gi.leftPinchActive /\ ~w.game.prevLeftPinchActive
        raise == edge /\ canSwitchWeapon(w.im, now)
    IN [w EXCEPT !.im.switchWeapon = IF raise THEN TRUE ELSE @,
                 !.log.pinchRaised = @ \/ raise,
                 !.log.pinchEdge = @ \/ edge,
                 !.game.prevLeftPinchActive = gi.leftPinchActive]

\* updatePlaying, the weapon switch is consumed.
switchStep(w, now) ==
    IF w.im.switchWeapon
    THEN [w EXCEPT !.game = toggleWeapon(@),
                   !.im = clearWeaponSwitch(@, now),
                   !.log.weaponToggles = @ + 1,
                   !.log.switched = Append(@,
                       [from |-> w.game.currentWeaponKey,
                        to |-> toggleWeapon(w.game).currentWeaponKey,
                        equipped |-> toggleWeapon(w.game).player.weapon,
                        before |-> w.game.weapons,
                        after |-> toggleWeapon(w.game).weapons])]
    ELSE w

\* updatePlaying, the creator-mode toggle is consumed.
creatorStep(w, now) ==
    IF w.im.creatorMode
    THEN [w EXCEPT !.game = toggleCreatorMode(@),
                   !.im = clearCreatorModeToggle(@, now),
                   !.log.creatorToggles = @ + 1]
    ELSE w

\* The mutant: the enemy is spawned once the timer has passed the interval.
enemySpawnStepLate(w, dt, rnd) ==
    IF w.game.enemySpawnTimer + dt > ENEMY_SPAWN_INTERVAL
    THEN [w EXCEPT !.game = [spawnEnemy(@, rnd) EXCEPT !.enemySpawnTimer = 0],
                   !.log.spawnedEnemies = @ + 1]
    ELSE [w EXCEPT !.game.enemySpawnTimer = @ + dt]

\* updatePlaying, the two spawn timers.
enemySpawnStep(w, dt, rnd) ==
    IF w.game.enemySpawnTimer + dt >= ENEMY_SPAWN_INTERVAL
    THEN [w EXCEPT !.game = [spawnEnemy(@, rnd) EXCEPT !.enemySpawnTimer = 0],
                   !.log.spawnedEnemies = @ + 1]
    ELSE [w EXCEPT !.game.enemySpawnTimer = @ + dt]

pickupSpawnStep(w, dt, rnd) ==
    IF w.game.pickupSpawnTimer + dt >= PICKUP_SPAWN_INTERVAL
    THEN [w EXCEPT !.game = [spawnPickup(@, rnd) EXCEPT !.pickupSpawnTimer = 0],
                   !.log.spawnedPickups = @ + 1]
    ELSE [w EXCEPT !.game.pickupSpawnTimer = @ + dt]

\* updatePlaying, the updates of enemies, projectiles and weapons.
applyEntities(w, shots, dt) ==
    [w EXCEPT !.game.enemies = shots.enemies,
              !.game.projectiles = shots.projectiles,
              !.game.weapons = updateWeapons(@, dt)]

projectilesAfter(foes, dt) ==
    updateProjectiles([projectiles |-> foes.projectiles,
                       enemies |-> foes.enemies], 1, dt)

entitiesStep(w, dt) ==
    applyEntities(w,
        projectilesAfter(
            updateEnemies([enemies |-> w.game.enemies,
                           projectiles |-> w.game.projectiles],
                          1, dt, w.game.player),
            dt),
        dt)

\* The mutant: the haste never runs out.
hasteStepEndless(w, dt) == w

\* The mutant: the remaining time is not held at 0.
hasteStepUnclamped(w, dt) ==
    IF ~w.game.pistolHasteActive THEN w
    ELSE IF w.game.pistolHasteRemaining - dt <= 0
    THEN [w EXCEPT !.game = recomputePistolFireRate(
                       [@ EXCEPT !.pistolHasteRemaining = @ - dt,
                                 !.pistolHasteActive = FALSE])]
    ELSE [w EXCEPT !.game.pistolHasteRemaining = @ - dt]

\* updatePlaying, the haste countdown and its expiry.
hasteStep(w, dt) ==
    IF ~w.game.pistolHasteActive THEN w
    ELSE IF Max(0, w.game.pistolHasteRemaining - dt) <= 0
    THEN [w EXCEPT !.game = recomputePistolFireRate(
                       [@ EXCEPT !.pistolHasteRemaining = 0,
                                 !.pistolHasteActive = FALSE])]
    ELSE [w EXCEPT !.game.pistolHasteRemaining = @ - dt]

\* The mutant: dead enemies are removed, projectiles stay on the list.
removeDeadStepEnemies(w) ==
    [w EXCEPT !.game =
        IF ~isAlive(w.game.player)
        THEN [setState(@, "game_over") EXCEPT
                !.enemies = SelectSeq(@, Alive),
                !.gameOverScreenHidden = FALSE]
        ELSE [@ EXCEPT !.enemies = SelectSeq(@, Alive)],
              !.log.gameOverHp =
                 IF ~isAlive(w.game.player) THEN Append(@, w.game.player.hp)
                 ELSE @]

\* updatePlaying, the dead are removed and a dead player ends the game.
removeDeadStep(w) ==
    [w EXCEPT !.game =
        IF ~isAlive(w.game.player)
        THEN [setState(@, "game_over") EXCEPT
                !.enemies = SelectSeq(@, Alive),
                !.projectiles = SelectSeq(@, StillFlying),
                !.gameOverScreenHidden = FALSE]
        ELSE [@ EXCEPT
                !.enemies = SelectSeq(@, Alive),
                !.projectiles = SelectSeq(@, StillFlying)],
              !.log.gameOverHp =
                 IF ~isAlive(w.game.player) THEN Append(@, w.game.player.hp)
                 ELSE @]

\* Game.updatePlaying on w = [game, im, log]: the steps above, in the
\* order of the code.
updatePlaying(w, gi, dt, now, rnd) ==
    removeDeadStep(
     handleCollisions(
      hasteStep(
       entitiesStep(
        pickupSpawnStep(
         enemySpawnStep(
          creatorStep(
           switchStep(
            leftPinchStep(
             fireStep(
              moveStep(w, gi, dt),
              gi),
             gi, now),
            now),
           now),
          dt, rnd),
         dt, rnd),
        dt),
       dt),
      gi))

\* Game.update, the state's own update.
stateStep(w, gi, dt, now, rnd) ==
    IF w.game.currentState = "playing"
    THEN updatePlaying(w, gi, dt, now, rnd)
    ELSE w

\* Game.update, the check that ends the game.
gameOverStep(w) ==
    IF ~isAlive(w.game.player) /\ w.game.currentState = "playing"
    THEN [w EXCEPT !.game = setState(@, "game_over"),
                   !.log.gameOverHp = Append(@, w.game.player.hp)]
    ELSE w

\* Game.update
update(w, gi, km, dt, now, rnd) ==
    gameOverStep(
     handleCollisions(
      stateStep([w EXCEPT !.im = inputManagerUpdate(@, km, FALSE),
                          !.log.dts = Append(@, dt)],
                gi, dt, now, rnd),
      gi))

\* The cap of a tick's delta time: 1 / 30 s.
MAX_DELTA == SECOND \div 30

\* The mutant: the elapsed time goes to update as it is.
gameLoopUncapped(w, gi, km, elapsed, now, rnd) ==
    IF ~w.game.isRunning THEN w
    ELSE [update(w, gi, km, elapsed, now, rnd) EXCEPT !.log.requested = @ + 1]

\* Game.gameLoop, elapsed being performance.now() - lastTime; log.requested
\* counts the calls of requestAnimationFrame.
gameLoop(w, gi, km, elapsed, now, rnd) ==
    IF ~w.game.isRunning THEN w
    ELSE [update(w, gi, km, Min(elapsed, MAX_DELTA), now, rnd)
            EXCEPT !.log.requested = @ + 1]

\* Game.stop
stop(w) == [w EXCEPT !.game.isRunning = FALSE]

\* Game.start: the first tick of a loop that was not running follows at
\* once, lastTime having just been read.
start(w, gi, km, now, rnd) ==
    IF w.game.isRunning THEN w
    ELSE gameLoop([w EXCEPT !.game.isRunning = TRUE], gi, km, 0, now, rnd)

\* The mutant: the state set to PLAYING over the objects of the lost game.
restartKeepingObjects(w, gi, km, now, rnd) ==
    [w EXCEPT !.game = [setState(@, "playing") EXCEPT
                          !.gameOverScreenHidden = TRUE]]

\* Game.restart
restart(w, gi, km, now, rnd) ==
    start([w EXCEPT !.game =
              [setState(initGameObjects(w.game), "playing") EXCEPT
                 !.gameOverScreenHidden = TRUE]],
          gi, km, now, rnd)

\* What a restart found: the state, the kill counter, the number of
\* entities on the three lists and the haste of the game it replaces.
NoBefore == [state |-> "", killCount |-> 0, entities |-> 0, haste |-> FALSE]

Before(g) ==
    [state |-> g.currentState, killCount |-> g.killCount,
     entities |-> Len(g.enemies) + Len(g.projectiles) + Len(g.pickups),
     haste |-> g.pistolHasteActive]

\* What the last step did; every field is present in every step.
Ev(op) ==
    [op |-> op, name |-> "", provider |-> NoProvider, fault |-> FALSE,
     activeBefore |-> NoProvider, known |-> FALSE,
     code |-> "", dt |-> 0, log |-> NoLog,
     answered |-> [weapon |-> 0, creator |-> 0],
     before |-> NoBefore,
     gesture |-> NewGestureInput(FALSE),
     circles |-> <<>>, elapsed |-> 0, emitted |-> <<>>, drawn |-> <<>>,
     event |-> "", callback |-> 0, called |-> <<>>, lifecycle |-> <<>>,
     collision |-> [ab |-> FALSE, ba |-> FALSE, info |-> NoInfo]]

\* The clock when the page has loaded: both cooldowns since time 0 are over.
NowStart == Max(weaponSwitchCooldown, creatorModeToggleCooldown)

\* The toggles a tick applied answer the raise signals counted before it.
Answered(h, log) ==
    [weapon |-> IF log.weaponToggles > 0 THEN h.signals.weapon ELSE 0,
     creator |-> IF log.creatorToggles > 0 THEN h.signals.creator ELSE 0]


\* The span of the wall clock, in tenths of a second.
MaxNow == 3

NoHist ==
    [lastToggle |-> [weapon |-> 0, creator |-> 0],
     signals |-> [weapon |-> 0, creator |-> 0],
     hasteElapsed |-> -1,
     time |-> 0,
     pending |-> 0,
     held |-> {}]

NoOp == Ev("init")

----------------------------------------------------------------------------
(* The input manager on its own: any sequence of registerProvider,        *)
(* setActiveProvider and update calls.                                      *)

ProvidersInit ==
    /\ gestureInput = NewGestureInput(TRUE)
    /\ results = <<>>
    /\ pinchRun = [Right |-> FALSE, Left |-> FALSE]
    /\ inputManager = NewInputManager
    /\ keyboardMouse = NewKeyboardMouse
    /\ game = NewGame
    /\ dateNow = NowStart
    /\ hist = NoHist
    /\ ev = NoOp

RegisterProvider ==
    \E name \in RegistryNames, provider \in Providers, isFallback \in BOOLEAN :
        /\ inputManager' = registerProvider(inputManager, name, provider, isFallback)
        /\ ev' = [Ev("registerProvider") EXCEPT
                    !.name = name, !.provider = provider,
                    !.activeBefore = inputManager.activeProvider,
                    !.known = providersGet(inputManager, name) # NoProvider,
                    !.lifecycle =
                        registerProviderCalls(inputManager, name, provider)]
        /\ UNCHANGED <<gestureVars, keyboardMouse, gameVars>>

SetActiveProvider ==
    \E name \in RegistryNames \cup {"unregistered"} :
        /\ inputManager' = setActiveProvider(inputManager, name)
        /\ ev' = [Ev("setActiveProvider") EXCEPT
                    !.name = name,
                    !.activeBefore = inputManager.activeProvider,
                    !.known = providersGet(inputManager, name) # NoProvider,
                    !.lifecycle = setActiveProviderCalls(inputManager, name)]
        /\ UNCHANGED <<gestureVars, keyboardMouse, gameVars>>

InputUpdate ==
    \E fault \in BOOLEAN :
        /\ inputManager' = inputManagerUpdate(inputManager, keyboardMouse, fault)
        /\ ev' = [Ev("update") EXCEPT
                    !.fault = fault,
                    !.activeBefore = inputManager.activeProvider,
                    !.lifecycle =
                        IF fault /\ inputManager.activeProvider # NoProvider
                        THEN fallbackToDefaultCalls(inputManager)
                        ELSE <<>>]
        /\ UNCHANGED <<gestureVars, keyboardMouse, gameVars>>

ProvidersNext == RegisterProvider \/ SetActiveProvider \/ InputUpdate

SpecProviders == ProvidersInit /\ [][ProvidersNext]_vars

----------------------------------------------------------------------------
(* The gesture channel on its own: frames arrive one after the other. *)

GestureInit ==
    /\ gestureInput \in {NewGestureInput(o) : o \in BOOLEAN}
    /\ results = <<>>
    /\ pinchRun = [Right |-> FALSE, Left |-> FALSE]
    /\ inputManager = NewInputManager
    /\ keyboardMouse = NewKeyboardMouse
    /\ game = NewGame
    /\ dateNow = NowStart
    /\ hist = NoHist
    /\ ev = NoOp

OnResults(frames) ==
    \E frame \in frames :
        /\ Representable(gestureInput, frame)
        /\ gestureInput' = onResults(gestureInput, frame)
        /\ results' = frame
        /\ pinchRun' =
             [Right |-> RunAfter(pinchRun.Right, rightHand(frame),
                                 rightPinchOnThreshold, rightPinchOffThreshold),
              Left |-> RunAfter(pinchRun.Left, leftHand(frame),
                                leftPinchOnThreshold, leftPinchOffThreshold)]
        /\ ev' = Ev("onResults")
        /\ UNCHANGED <<inputVars, gameVars>>

GestureNext == OnResults(PinchFrames)

SpecGesture == GestureInit /\ [][GestureNext]_vars

(* The gesture channel with hands that move and aim: the movement hand at  *)
(* the centre and off it, the aiming hand at points of the interaction     *)
(* region 3.2 px to 6.4 px of aim apart, at a far point of the region and  *)
(* outside it.  The step records the object the frame found.               *)

AimTips ==
    {Point(250, 600), Point(251, 602), Point(252, 600), Point(400, 700),
     Point(800, 600)}

MoveTips == {Point(800, 600), Point(700, 600)}

Hand(label, tip, reach) ==
    [label |-> label, tip |-> tip, thumb |-> Point(tip.x, tip.y + reach)]

AimHands ==
    {Hand("Left", t, 30) : t \in AimTips} \cup {Hand("Left", Point(250, 600), 61)}

MoveHands ==
    {Hand("Right", t, 30) : t \in MoveTips} \cup {Hand("Right", Point(700, 600), 61)}

AimFrames ==
    {<<>>} \cup {<<h>> : h \in AimHands \cup MoveHands}
           \cup {<<l, r>> : l \in AimHands, r \in MoveHands}

OnResultsFrom(frames) ==
    \E frame \in frames :
        /\ Representable(gestureInput, frame)
        /\ gestureInput' = onResults(gestureInput, frame)
        /\ results' = frame
        /\ pinchRun' =
             [Right |-> RunAfter(pinchRun.Right, rightHand(frame),
                                 rightPinchOnThreshold, rightPinchOffThreshold),
              Left |-> RunAfter(pinchRun.Left, leftHand(frame),
                                leftPinchOnThreshold, leftPinchOffThreshold)]
        /\ ev' = [Ev("onResults") EXCEPT !.gesture = gestureInput]
        /\ UNCHANGED <<inputVars, gameVars>>

AimNext == OnResultsFrom(AimFrames)

SpecAim == GestureInit /\ [][AimNext]_vars

----------------------------------------------------------------------------
(* The game: the events of the page and the ticks of the loop.  Each       *)
(* specification below draws its start from a set of states of a game in   *)
(* progress and feeds the game the events of one concern.                  *)

\* What Math.random yields in a tick.
NoRnd ==
    [enemyType |-> 1, edge |-> 0, first |-> Point(0, 0), second |-> Point(0, 0),
     pickupType |-> 1, draws |-> [i \in 1..PICKUP_DRAWS |-> Point(0, 0)]]

IsHaste(entry) == entry.pickup.type = "pistol_haste"

\* The history after a tick that began in stateBefore and did what log says.
HistTick(h, stateBefore, log, dt, time) ==
    [h EXCEPT
       !.lastToggle.weapon = IF log.weaponToggles > 0 THEN time ELSE @,
       !.lastToggle.creator = IF log.creatorToggles > 0 THEN time ELSE @,
       !.signals.weapon = IF log.weaponToggles > 0 THEN 0 ELSE @,
       !.signals.creator = IF log.creatorToggles > 0 THEN 0 ELSE @,
       !.hasteElapsed =
           IF Count(log.collected, IsHaste) > 0 THEN 0
           ELSE IF @ >= 0 /\ stateBefore = "playing"
           THEN Min(HASTE_DURATION, @ + dt)
           ELSE @,
       !.time = @ + dt]

\* The codes of the keys that are mapped to a direction.
MoveCodes ==
    {code \in KeyCodes : keyMap(code) \in {"up", "down", "left", "right"}}

\* The history after a key-down event; held is the set of direction keys
\* that are down on the keyboard.
HistKeyDown(h, code, time) ==
    LET flag == CASE code = "KeyR" -> "weapon" [] code = "KeyG" -> "creator"
                  [] OTHER -> ""
    IN IF flag = ""
       THEN [h EXCEPT !.held = IF code \in MoveCodes THEN @ \cup {code} ELSE @]
       ELSE [h EXCEPT !.signals[flag] = Min(2, @ + 1)]

World == [game |-> game, im |-> inputManager, log |-> NoLog]

\* startGame(): game.start() once init() is done.
Start ==
    /\ ~game.isRunning
    /\ LET w == start(World, gestureInput, keyboardMouse, dateNow, NoRnd)
       IN /\ game' = w.game
          /\ inputManager' = w.im
          /\ hist' = HistTick(hist, game.currentState, w.log, 0, dateNow)
          /\ ev' = [Ev("start") EXCEPT !.log = w.log]
    /\ UNCHANGED <<gestureVars, keyboardMouse, dateNow>>

\* An animation frame: Game.gameLoop.  Math.random is consulted when a
\* spawn is due.
GameLoop(elapsedTimes, rnds, maxTime) ==
    \E elapsed \in elapsedTimes :
        LET dt == Min(elapsed, MAX_DELTA)
            due == /\ game.currentState = "playing"
                   /\ \/ game.enemySpawnTimer + dt >= ENEMY_SPAWN_INTERVAL
                      \/ game.pickupSpawnTimer + dt >= PICKUP_SPAWN_INTERVAL
        IN \E rnd \in IF due THEN rnds ELSE {NoRnd} :
            LET w == gameLoop(World, gestureInput, keyboardMouse, elapsed,
                              dateNow, rnd)
            IN /\ game.isRunning
               /\ hist.time < maxTime
               /\ game' = w.game
               /\ inputManager' = w.im
               /\ hist' = HistTick(hist, game.currentState, w.log, dt, dateNow)
               /\ ev' = [Ev("gameLoop") EXCEPT
                           !.dt = dt, !.log = w.log, !.elapsed = elapsed,
                           !.answered = Answered(hist, w.log)]
               /\ UNCHANGED <<gestureVars, keyboardMouse, dateNow>>

\* What restart() leaves behind.
Restarted(op, code, k) ==
    LET w == restart([World EXCEPT !.im = k.im], gestureInput, k.km,
                     dateNow, NoRnd)
    IN /\ game' = w.game
       /\ inputManager' = w.im
       /\ keyboardMouse' = k.km
       /\ hist' = [HistKeyDown(hist, code, dateNow) EXCEPT
                     !.hasteElapsed =
                        IF Count(w.log.collected, IsHaste) > 0 THEN 0 ELSE -1]
       /\ ev' = [Ev(op) EXCEPT !.code = code, !.log = w.log,
                            !.before = Before(game)]

\* A keydown event: the provider's handler, then the listener of Game,
\* which restarts a game that is over on Enter.
KeyDown(codes) ==
    \E code \in codes :
        LET k == handleKeyDown([im |-> inputManager, km |-> keyboardMouse],
                               code, dateNow)
        IN /\ IF code = "Enter" /\ game.currentState = "game_over"
              THEN Restarted("restart", code, k)
              ELSE /\ inputManager' = k.im
                   /\ keyboardMouse' = k.km
                   /\ hist' = HistKeyDown(hist, code, dateNow)
                   /\ ev' = [Ev("keydown") EXCEPT !.code = code]
                   /\ UNCHANGED game
           /\ UNCHANGED <<gestureVars, dateNow>>

KeyUp(codes) ==
    \E code \in codes :
        LET k == handleKeyUp([im |-> inputManager, km |-> keyboardMouse], code)
        IN /\ inputManager' = k.im
           /\ keyboardMouse' = k.km
           /\ hist' = [hist EXCEPT !.held = @ \ {code}]
           /\ ev' = [Ev("keyup") EXCEPT !.code = code]
           /\ UNCHANGED <<gestureVars, game, dateNow>>

\* handleMouseDown and handleMouseUp for the left button.
MouseDown ==
    /\ keyboardMouse' = [keyboardMouse EXCEPT !.mouseButtons = @ \cup {0}]
    /\ ev' = Ev("mousedown")
    /\ UNCHANGED <<gestureVars, inputManager, gameVars>>

MouseUp ==
    /\ keyboardMouse' = [keyboardMouse EXCEPT !.mouseButtons = @ \ {0}]
    /\ ev' = Ev("mouseup")
    /\ UNCHANGED <<gestureVars, inputManager, gameVars>>

\* handleMouseMove: the pointer in canvas coordinates (1 / AimScale px).
MouseMove(points) ==
    \E p \in points :
        /\ inputManager' = [inputManager EXCEPT
                              !.mouseX = p.x * AimScale, !.mouseY = p.y * AimScale]
        /\ ev' = Ev("mousemove")
        /\ UNCHANGED <<gestureVars, keyboardMouse, gameVars>>

\* A click on the restart button of the game-over screen.
ClickRestart ==
    /\ ~game.gameOverScreenHidden
    /\ Restarted("restart", "click",
                 [im |-> inputManager, km |-> keyboardMouse])
    /\ UNCHANGED <<gestureVars, dateNow>>

\* Time passes on the wall clock.
Advance ==
    /\ dateNow < NowStart + MaxNow
    /\ dateNow' = dateNow + 1
    /\ hist' = [hist EXCEPT !.signals = [weapon |-> 0, creator |-> 0]]
    /\ ev' = Ev("advance")
    /\ UNCHANGED <<gestureVars, inputVars, game>>

\* A game in progress: the loop running, the player at the centre with hp
\* left, and the given entities around.
Scene(hp, enemies, projectiles, pickups) ==
    [NewGame EXCEPT !.player.hp = hp, !.enemies = enemies,
                    !.projectiles = projectiles, !.pickups = pickups,
                    !.isRunning = TRUE]

\* A point given by its offset in pixels from the arena's centre.
FromCentre(dx, dy) ==
    Point((ARENA_WIDTH * PX) \div 2 + dx * PX, (ARENA_HEIGHT * PX) \div 2 + dy * PX)

PickupAt(dx, dy, type) ==
    NewPickup(FromCentre(dx, dy).x, FromCentre(dx, dy).y, type)

\* Frames of one hand at the movement centre, pinched or open, and the
\* empty frame.
HandFrames(label) ==
    {<<>>} \cup
    {<<[label |-> label, tip |-> t, thumb |-> Point(t.x + o.x, t.y + o.y)]>> :
        t \in PinchFingerTips, o \in {Point(0, 30), Point(0, 61)}}

GameInit(scenes) ==
    /\ gestureInput = NewGestureInput(TRUE)
    /\ results = <<>>
    /\ pinchRun = [Right |-> FALSE, Left |-> FALSE]
    /\ inputManager = setupInput(NewInputManager)
    /\ keyboardMouse = NewKeyboardMouse
    /\ game \in scenes
    /\ dateNow = NowStart
    /\ hist = NoHist
    /\ ev = NoOp

(* Pickups: the player stands on several pickups and confirms with the F   *)
(* key or the right pinch.                                                  *)

PickupScenes ==
    {Scene(2, <<>>, <<>>, pickups) : pickups \in
        {<<PickupAt(30, 0, "mg_ammo"), PickupAt(0, -20, "heal")>>,
         <<PickupAt(0, 25, "grenade"), PickupAt(25, 0, "heal"),
           PickupAt(200, 0, "mg_ammo")>>,
         <<PickupAt(100, 0, "heal"), PickupAt(10, 10, "pistol_haste")>>}}

MaxPickupTicks == 3

PickupNext ==
    \/ KeyDown({"KeyF", "KeyD"})
    \/ KeyUp({"KeyF", "KeyD"})
    \/ OnResults(HandFrames("Right"))
    \/ GameLoop({MAX_DELTA}, {NoRnd}, MaxPickupTicks * MAX_DELTA)

SpecPickup == GameInit(PickupScenes) /\ [][PickupNext]_vars

(* Combat: enemies close to the player and bullets of the player in flight *)
(* towards them, the player moving and firing with the mouse.               *)

EnemyAt(type, dx, dy) == NewEnemy(type, FromCentre(dx, dy).x, FromCentre(dx, dy).y)

\* A bullet of the player flying to the right.
BulletAt(dx, dy, damage) ==
    NewProjectile("bullet", FromCentre(dx, dy).x, FromCentre(dx, dy).y,
                  PROJECTILE_SPEED * PX, 0, damage, "player")

CombatScenes ==
    {Scene(3, <<EnemyAt("assassin", 100, 0)>>,
           <<BulletAt(88, 0, 1), BulletAt(90, 0, 1)>>, <<>>),
     Scene(3, <<EnemyAt("shooter", 100, 0)>>,
           <<BulletAt(80, 0, 3)>>, <<>>),
     Scene(3, <<EnemyAt("tank", 100, 0), EnemyAt("assassin", 100, 10)>>,
           <<BulletAt(80, 5, 1)>>, <<>>),
     Scene(1, <<EnemyAt("tank", 30, 0)>>, <<>>, <<>>)}

MaxCombatTicks == 3

MousePoints == {Point(700, 400), Point(600, 300)}

CombatNext ==
    \/ KeyDown({"KeyD", "Enter"})
    \/ KeyUp({"KeyD"})
    \/ MouseDown
    \/ MouseUp
    \/ MouseMove(MousePoints)
    \/ ClickRestart
    \/ GameLoop({MAX_DELTA}, {NoRnd}, MaxCombatTicks * MAX_DELTA)

SpecCombat == GameInit(CombatScenes) /\ [][CombatNext]_vars

(* Switching: the R and G keys and the left pinch, hammered while the      *)
(* wall clock advances.                                                     *)

SwitchScenes == {Scene(3, <<>>, <<>>, <<>>)}

MaxSwitchTicks == 3

SwitchNext ==
    \/ KeyDown({"KeyR", "KeyG"})
    \/ OnResults(HandFrames("Left"))
    \/ GameLoop({MAX_DELTA}, {NoRnd}, MaxSwitchTicks * MAX_DELTA)
    \/ Advance

SpecSwitch == GameInit(SwitchScenes) /\ [][SwitchNext]_vars

(* Haste: the player stands on pistol-haste pickups, collects them with    *)
(* the F key and toggles the creator mode; the loop runs until the haste   *)
(* is over, tanks and pickups spawning at the arena's left edge meanwhile. *)

HasteScenes ==
    {Scene(3, <<>>, <<>>, <<PickupAt(10, 10, "pistol_haste")>>),
     Scene(3, <<>>, <<>>, <<PickupAt(10, 10, "pistol_haste"),
                            PickupAt(-15, 0, "pistol_haste")>>)}

HasteRnds ==
    {[enemyType |-> 3, edge |-> 3,
      first |-> Point(0, (ARENA_HEIGHT * PX) \div 2),
      second |-> Point(0, (ARENA_HEIGHT * PX) \div 2),
      pickupType |-> 3,
      draws |-> [i \in 1..PICKUP_DRAWS |-> Point(100 * PX, 100 * PX)]]}

\* Ticks before the first haste pickup, and after the haste has run out.
\* The tick that follows a haste pickup is a short or a full one, so that
\* the 10 s end within a tick as well as between two ticks.
MaxIdleTicks == 2

HasteNext ==
    \/ KeyDown({"KeyF", "KeyG"})
    \/ GameLoop(IF hist.hasteElapsed = 0 THEN {MAX_DELTA - 1, MAX_DELTA}
                ELSE {MAX_DELTA},
                HasteRnds,
                IF hist.hasteElapsed < 0
                THEN MaxIdleTicks * MAX_DELTA
                ELSE HASTE_DURATION + MaxIdleTicks * MAX_DELTA)

SpecHaste == GameInit(HasteScenes) /\ [][HasteNext]_vars

(* Restart: the page as loaded, and games about to be lost with kills on   *)
(* the counter, entities on all three lists and a haste pickup in reach.   *)
(* Nothing in the program calls stop(), so the loop is running whenever a  *)
(* game is over.                                                           *)

EnemyBulletAt(dx, dy) ==
    NewProjectile("bullet", FromCentre(dx, dy).x, FromCentre(dx, dy).y,
                  0, PROJECTILE_SPEED * PX, 1, "enemy")

RestartScenes ==
    {NewGame,
     [Scene(1, <<EnemyAt("tank", 30, 0), EnemyAt("shooter", 200, 100)>>,
            <<EnemyBulletAt(-200, 0), BulletAt(-100, -100, 1)>>,
            <<PickupAt(10, 10, "pistol_haste"), PickupAt(150, 0, "heal")>>)
        EXCEPT !.killCount = 2, !.enemySpawnTimer = SECOND,
               !.pickupSpawnTimer = 3 * SECOND],
     [Scene(2, <<EnemyAt("tank", 30, 0)>>, <<>>, <<>>)
        EXCEPT !.killCount = 1]}

MaxRestartTicks == 3

RestartNext ==
    \/ Start
    \/ KeyDown({"KeyF", "KeyG", "Enter"})
    \/ MouseDown
    \/ ClickRestart
    \/ GameLoop({MAX_DELTA}, {NoRnd}, MaxRestartTicks * MAX_DELTA)

SpecRestart == GameInit(RestartScenes) /\ [][RestartNext]_vars

(* States: the page from the constructor on (init, start, the loop), and   *)
(* games in which the player dies next to pickups that heal.               *)

\* Game.init: the objects of the game, then PLAYING.
InitGame ==
    /\ game.currentState = "boot"
    /\ game' = NewGame
    /\ ev' = Ev("init")
    /\ UNCHANGED <<gestureVars, inputVars, dateNow, hist>>

StateScenes ==
    {BootGame,
     Scene(1, <<EnemyAt("assassin", 20, 0)>>, <<>>,
           <<PickupAt(10, 10, "heal"), PickupAt(-15, 0, "pistol_haste")>>),
     Scene(1, <<EnemyAt("assassin", 20, 0)>>, <<>>,
           <<PickupAt(10, 10, "pistol_haste"), PickupAt(-15, 0, "heal")>>),
     Scene(2, <<EnemyAt("tank", 30, 0)>>, <<EnemyBulletAt(0, -10)>>, <<>>)}

MaxStateTicks == 3

\* The listeners and the loop exist once init() is done.
Initialised == game.currentState # "boot"

StatesNext ==
    \/ InitGame
    \/ Initialised /\ Start
    \/ Initialised /\ KeyDown({"KeyF", "Enter"})
    \/ Initialised /\ KeyUp({"KeyF"})
    \/ Initialised /\ ClickRestart
    \/ Initialised /\ GameLoop({MAX_DELTA}, {NoRnd}, MaxStateTicks * MAX_DELTA)

SpecStates == GameInit(StateScenes) /\ [][StatesNext]_vars

(* Movement: the movement keys of the keyboard and frames that carry a     *)
(* Right hand off the centre, over a game with the player alone.           *)

\* A manager whose init() found no gesture-cam element: never initialized,
\* no callback registered.
NoGestureInput == [NewGestureInput(FALSE) EXCEPT !.initialized = FALSE]

MoveInit ==
    /\ gestureInput \in {NewGestureInput(TRUE), NoGestureInput}
    /\ results = <<>>
    /\ pinchRun = [Right |-> FALSE, Left |-> FALSE]
    /\ inputManager = setupInput(NewInputManager)
    /\ keyboardMouse = NewKeyboardMouse
    /\ game = NewGame
    /\ dateNow = NowStart
    /\ hist = NoHist
    /\ ev = NoOp

MoveFrames == {<<>>} \cup {<<h>> : h \in MoveHands}

MoveKeys == {"KeyD", "KeyW"}

MaxMoveTicks == 2

MoveNext ==
    \/ Start
    \/ KeyDown(MoveKeys)
    \/ KeyUp(MoveKeys)
    \/ (gestureInput.initialized /\ OnResultsFrom(MoveFrames))
    \/ GameLoop({MAX_DELTA}, {NoRnd}, MaxMoveTicks * MAX_DELTA)

SpecMove == MoveInit /\ [][MoveNext]_vars

(* Firing: frames that carry a Left hand in and out of the interaction     *)
(* region, the mouse and its left button, over a game with the player      *)
(* alone.                                                                  *)

FireInit ==
    /\ gestureInput = NewGestureInput(TRUE)
    /\ results = <<>>
    /\ pinchRun = [Right |-> FALSE, Left |-> FALSE]
    /\ inputManager = setupInput(NewInputManager)
    /\ keyboardMouse = NewKeyboardMouse
    /\ game = NewGame
    /\ dateNow = NowStart
    /\ hist = NoHist
    /\ ev = NoOp

\* An open Left hand in the region and outside it.
FireFrames ==
    {<<>>} \cup {<<Hand("Left", t, 61)>> :
                    t \in {Point(400, 700), Point(800, 600)}}

FirePoints == {Point(100, 300)}

MaxFireTicks == 2

FireNext ==
    \/ Start
    \/ MouseDown
    \/ MouseUp
    \/ MouseMove(FirePoints)
    \/ OnResultsFrom(FireFrames)
    \/ GameLoop({MAX_DELTA}, {NoRnd}, MaxFireTicks * MAX_DELTA)

SpecFire == FireInit /\ [][FireNext]_vars

(* Collisions: handleCollisions alone, over games whose projectiles of     *)
(* every owner lie on the player or on an enemy.                           *)

\* A projectile at rest at an offset from the arena's centre.
ShotAt(owner, dx, dy) ==
    NewProjectile(IF owner = NoOwner THEN "grenade" ELSE "bullet",
                  FromCentre(dx, dy).x, FromCentre(dx, dy).y, 0, 0, 1, owner)

\* On the player (at the centre) and 100 px to its right.
Shots ==
    {ShotAt(owner, dx, 0) : owner \in {"player", "shooter", NoOwner},
                            dx \in {0, 100}}

MaxShots == 2

ShotLists == UNION {[1..n -> Shots] : n \in 1..MaxShots}

\* A tank 100 px to the right of the player, or in contact with it.
CollideScenes ==
    {Scene(3, <<EnemyAt("tank", dx, 0)>>, shots, <<>>) :
        dx \in {100, 30}, shots \in ShotLists}

\* The calls stop when the kill counter, which a projectile of the player
\* that lies on a dead enemy raises in every call, has come this far.
MaxKills == 2

\* Game.handleCollisions
Collide ==
    LET w == handleCollisions(World, gestureInput)
    IN /\ game.killCount < MaxKills
       /\ game' = w.game
       /\ inputManager' = w.im
       /\ ev' = [Ev("handleCollisions") EXCEPT !.log = w.log]
       /\ UNCHANGED <<gestureVars, keyboardMouse, dateNow, hist>>

CollideNext == Collide

SpecCollide == GameInit(CollideScenes) /\ [][CollideNext]_vars

(* Loot: pickups under the player and away from it, the F key, the right   *)
(* pinch, ticks of the loop, and a player who dies and restarts.           *)

LootScenes ==
    {Scene(2, <<>>, <<>>,
           <<PickupAt(30, 0, "mg_ammo"), PickupAt(0, -20, "heal"),
             PickupAt(200, 0, "grenade")>>),
     Scene(1, <<EnemyAt("tank", 30, 0)>>, <<>>,
           <<PickupAt(10, 10, "pistol_haste"), PickupAt(300, 0, "heal")>>)}

\* The Right hand at the movement centre, pinched or open, and no hand.
LootFrames ==
    {<<>>} \cup {<<Hand("Right", Point(centerX, centerY), reach)>> :
                    reach \in {30, 61}}

MaxLootTicks == 3

LootNext ==
    \/ KeyDown({"KeyF", "Enter"})
    \/ KeyUp({"KeyF"})
    \/ OnResultsFrom(LootFrames)
    \/ ClickRestart
    \/ GameLoop({MAX_DELTA}, {NoRnd}, MaxLootTicks * MAX_DELTA)

SpecLoot == GameInit(LootScenes) /\ [][LootNext]_vars

(* Circles: the two functions of CollisionSystem over pairs of circles     *)
(* apart, overlapping, touching, and up to 0.03 px beyond touching.        *)

Circle(px, py, radius) == [x |-> px, y |-> py, radius |-> radius]

\* Offsets of the second centre from the first, in position units: the sum
\* of the radii below is 440 or 200 units.
CircleOffsets ==
    {Point(0, 0), Point(1, 0), Point(300, 300), Point(120, 160),
     Point(-160, 120), Point(199, 0), Point(200, 0), Point(0, -200),
     Point(200, 1), Point(200, 2), Point(-200, 3), Point(201, 0),
     Point(264, 352), Point(-352, -264), Point(439, 0), Point(440, 0),
     Point(0, 440), Point(440, 1), Point(-440, -2), Point(2, 440),
     Point(440, 3), Point(3, -440), Point(441, 0), Point(312, 311)}

CircleCentres == {Point(0, 0), Point(6000, 4000)}

CirclePairs ==
    {<<Circle(c.x, c.y, PX * PLAYER_RADIUS),
       Circle(c.x + o.x, c.y + o.y, radius)>> :
        c \in CircleCentres, o \in CircleOffsets,
        radius \in {PX * PICKUP_RADIUS, PX * PROJECTILE_RADIUS}}

CirclesInit ==
    /\ gestureInput = NewGestureInput(TRUE)
    /\ results = <<>>
    /\ pinchRun = [Right |-> FALSE, Left |-> FALSE]
    /\ inputManager = setupInput(NewInputManager)
    /\ keyboardMouse = NewKeyboardMouse
    /\ game = NewGame
    /\ dateNow = NowStart
    /\ hist = NoHist
    /\ ev \in {[Ev("circles") EXCEPT !.circles = pair] : pair \in CirclePairs}

\* checkCircleCollision both ways round and getCollisionInfo on the pair.
CheckCircles ==
    /\ ev.op = "circles"
    /\ ev' = [ev EXCEPT
                !.op = "checkCircleCollision",
                !.collision =
                    [ab |-> checkCircleCollision(ev.circles[1], ev.circles[2]),
                     ba |-> checkCircleCollision(ev.circles[2], ev.circles[1]),
                     info |-> getCollisionInfo(ev.circles[1], ev.circles[2])]]
    /\ UNCHANGED <<gestureVars, inputVars, gameVars>>

CirclesNext == CheckCircles

SpecCircles == CirclesInit /\ [][CirclesNext]_vars

(* Stalls: frames that follow one another at once, at the display's rate,  *)
(* and after gaps of up to ten seconds, an assassin approaching meanwhile. *)

StallScenes ==
    {NewGame, Scene(3, <<EnemyAt("assassin", 300, 0)>>, <<>>, <<>>)}

\* performance.now() - lastTime, in 1 / SECOND s.
StallGaps == {0, 1, MAX_DELTA, MAX_DELTA + 1, 10 * SECOND}

MaxStallTicks == 3

StallNext ==
    \/ Start
    \/ GameLoop(StallGaps, {NoRnd}, MaxStallTicks * MAX_DELTA)

SpecStall == GameInit(StallScenes) /\ [][StallNext]_vars

(* Spawning: games shortly before an enemy and a pickup are due, one of     *)
(* them lost to a tank on the first tick; frames of three lengths.         *)

\* A game whose spawn timers are short of their intervals by the given time.
Due(scene, enemyIn, pickupIn) ==
    [scene EXCEPT !.enemySpawnTimer = ENEMY_SPAWN_INTERVAL - enemyIn,
                  !.pickupSpawnTimer = PICKUP_SPAWN_INTERVAL - pickupIn]

SpawnScenes ==
    {Due(Scene(3, <<>>, <<>>, <<>>), 2 * MAX_DELTA, 2 * MAX_DELTA),
     Due(Scene(3, <<>>, <<>>, <<>>), MAX_DELTA, 3 * MAX_DELTA),
     Due(Scene(1, <<EnemyAt("tank", 30, 0)>>, <<>>, <<>>),
         2 * MAX_DELTA, 2 * MAX_DELTA)}

SpawnGaps == {1, MAX_DELTA - 1, MAX_DELTA}

MaxSpawnTicks == 4

SpawnNext ==
    \/ ClickRestart
    \/ GameLoop(SpawnGaps, HasteRnds, MaxSpawnTicks * MAX_DELTA)

SpecSpawn == GameInit(SpawnScenes) /\ [][SpawnNext]_vars

(* The state machine: any sequence of setState calls, on the machine of a  *)
(* game after its constructor, after init() and in progress.               *)

MachineScenes == {BootGame, NewGame, Scene(1, <<>>, <<>>, <<>>)}

\* stateMachine.setState(newState)
SetState ==
    \E newState \in GAME_STATES :
        /\ game' = setState(game, newState)
        /\ ev' = [Ev("setState") EXCEPT
                    !.name = newState,
                    !.emitted = setStateEmits(game, newState)]
        /\ UNCHANGED <<gestureVars, inputVars, dateNow, hist>>

MachineNext == SetState

SpecMachine == GameInit(MachineScenes) /\ [][MachineNext]_vars

(* The filter: enemies about to die by bullet, knife and grenade, bullets  *)
(* of enemies on a player in contact with a tank, the player firing with   *)
(* the mouse.                                                              *)

\* The scene with the given weapon equipped.
Armed(scene, key) ==
    [scene EXCEPT !.currentWeaponKey = key, !.player.weapon = key]

FilterScenes ==
    {Scene(3, <<EnemyAt("assassin", 100, 0), EnemyAt("tank", 30, 0)>>,
           <<BulletAt(88, 0, 1), EnemyBulletAt(0, -10), EnemyBulletAt(5, -10)>>,
           <<>>),
     Scene(1, <<EnemyAt("assassin", 100, 0)>>,
           <<BulletAt(88, 0, 1), EnemyBulletAt(0, -10), EnemyBulletAt(5, -10)>>,
           <<>>),
     Armed(Scene(3, <<EnemyAt("assassin", 40, 0), EnemyAt("assassin", 0, 45)>>,
                 <<EnemyBulletAt(0, -10)>>, <<>>), "knife"),
     Armed(Scene(3, <<EnemyAt("assassin", 40, 0), EnemyAt("tank", 70, 10)>>,
                 <<>>, <<>>), "grenade")}

MaxFilterTicks == 3

FilterNext ==
    \/ MouseDown
    \/ MouseUp
    \/ MouseMove({Point(700, 400)})
    \/ GameLoop({MAX_DELTA}, {NoRnd}, MaxFilterTicks * MAX_DELTA)

SpecFilter == GameInit(FilterScenes) /\ [][FilterNext]_vars

(* The loop chain: start(), stop() and restart() called between animation  *)
(* frames; hist.pending counts the gameLoop callbacks that                 *)
(* requestAnimationFrame holds.                                            *)

ChainScenes == {NewGame, Scene(1, <<EnemyAt("tank", 30, 0)>>, <<>>, <<>>)}

MaxPending == 3

MaxChainTicks == 4

\* What a call or a callback leaves behind: fired is 1 for a callback.
Chained(op, w, fired, dt) ==
    /\ game' = w.game
    /\ inputManager' = w.im
    /\ hist' = [HistTick(hist, game.currentState, w.log, dt, dateNow) EXCEPT
                  !.pending = @ - fired + w.log.requested]
    /\ ev' = [Ev(op) EXCEPT !.log = w.log, !.before = Before(game)]
    /\ UNCHANGED <<gestureVars, keyboardMouse, dateNow>>

\* game.start()
CallStart ==
    /\ hist.pending < MaxPending
    /\ Chained("start", start(World, gestureInput, keyboardMouse, dateNow, NoRnd),
               0, 0)

\* game.stop()
CallStop ==
    /\ game.isRunning
    /\ Chained("stop", stop(World), 0, 0)

\* game.restart()
CallRestart ==
    /\ hist.pending < MaxPending
    /\ Chained("restart",
               restart(World, gestureInput, keyboardMouse, dateNow, NoRnd), 0, 0)

\* A pending callback of requestAnimationFrame runs gameLoop.
Frame ==
    /\ hist.pending > 0
    /\ hist.time < MaxChainTicks * MAX_DELTA
    /\ Chained("gameLoop",
               gameLoop(World, gestureInput, keyboardMouse, MAX_DELTA, dateNow,
                        NoRnd),
               1, MAX_DELTA)

ChainNext == CallStart \/ CallStop \/ CallRestart \/ Frame

SpecChain == GameInit(ChainScenes) /\ [][ChainNext]_vars

(* The candidate: handleCollisions alone over pickup lists with pickups at *)
(* the same distance from the player, nearer, farther and out of reach.    *)

\* Three pickups 20 px from the player, one at 10 px, one at 40 px (within
\* the 44 px of the two radii) and one at 200 px.
NearPickups ==
    {PickupAt(20, 0, "heal"), PickupAt(0, 20, "mg_ammo"),
     PickupAt(-20, 0, "grenade"), PickupAt(10, 0, "pistol_haste"),
     PickupAt(0, -40, "mg_ammo"), PickupAt(200, 0, "heal")}

MaxPickups == 3

NearScenes ==
    {Scene(2, <<>>, <<>>, pickups) :
        pickups \in UNION {[1..n -> NearPickups] : n \in 1..MaxPickups}}

NearNext ==
    \/ KeyDown({"KeyF"})
    \/ KeyUp({"KeyF"})
    \/ OnResultsFrom(LootFrames)
    \/ Collide

SpecNear == GameInit(NearScenes) /\ [][NearNext]_vars

(* Stacking: a haste pickup under the player and a second one to its       *)
(* right, which the player reaches by walking while the first haste runs;  *)
(* the loop runs until the haste is over.                                  *)

StackScenes ==
    {Scene(3, <<>>, <<>>,
           <<PickupAt(10, 10, "pistol_haste"), PickupAt(dx, 0, "pistol_haste")>>) :
        dx \in {50, 58}}

\* The D key goes down before the first tick and comes up, if it does,
\* after this many ticks; the F key goes down at any time and stays down.
MaxWalkTicks == 3

StackNext ==
    \/ KeyDown({"KeyF"})
    \/ (hist.time = 0 /\ KeyDown({"KeyD"}))
    \/ (hist.time = MaxWalkTicks * MAX_DELTA /\ KeyUp({"KeyD"}))
    \/ GameLoop({MAX_DELTA}, HasteRnds,
                IF hist.hasteElapsed < 0
                THEN MaxIdleTicks * MAX_DELTA
                ELSE HASTE_DURATION + (MaxWalkTicks + MaxIdleTicks) * MAX_DELTA)

SpecStack == GameInit(StackScenes) /\ [][StackNext]_vars

(* The haste timer: a haste pickup under a player alone, followed until    *)
(* the haste is over, and under a player whom an assassin reaches in the   *)
(* third tick, followed through GAME_OVER and the restart.                 *)

TimerScenes ==
    {Scene(3, <<>>, <<>>, <<PickupAt(10, 10, "pistol_haste")>>),
     Scene(1, <<EnemyAt("assassin", 40, 0)>>, <<>>,
           <<PickupAt(10, 10, "pistol_haste")>>)}

\* Ticks before the haste pickup, of a game that is lost, and after the
\* haste has run out.
MaxTimerTicks == 6

TimerNext ==
    \/ KeyDown({"KeyF", "Enter"})
    \/ KeyUp({"KeyF"})
    \/ ClickRestart
    \/ GameLoop(IF hist.hasteElapsed = 0 THEN {MAX_DELTA - 1, MAX_DELTA}
                ELSE {MAX_DELTA},
                HasteRnds,
                IF hist.hasteElapsed < 0 \/ game.player.hp < PLAYER_MAX_HP
                THEN MaxTimerTicks * MAX_DELTA
                ELSE HASTE_DURATION + MaxTimerTicks * MAX_DELTA)

SpecTimer == GameInit(TimerScenes) /\ [][TimerNext]_vars

(* The weapon cycle: the R key between waits of the switch cooldown, the   *)
(* mouse firing the weapon in hand, and a player who dies and restarts.    *)

CycleScenes ==
    {Scene(3, <<>>, <<>>, <<>>),
     Scene(1, <<EnemyAt("assassin", 40, 0)>>, <<>>, <<>>)}

MaxCycles == 4

MaxCycleTicks == 5

\* The wall clock passes the cooldown of the weapon switch.
Cooldown ==
    /\ dateNow < NowStart + MaxCycles * weaponSwitchCooldown
    /\ dateNow' = dateNow + weaponSwitchCooldown
    /\ hist' = [hist EXCEPT !.signals = [weapon |-> 0, creator |-> 0]]
    /\ ev' = Ev("advance")
    /\ UNCHANGED <<gestureVars, inputVars, game>>

CycleNext ==
    \/ KeyDown({"KeyR", "Enter"})
    \/ MouseDown
    \/ Cooldown
    \/ GameLoop({MAX_DELTA}, {NoRnd}, MaxCycleTicks * MAX_DELTA)

SpecCycle == GameInit(CycleScenes) /\ [][CycleNext]_vars

(* Placing: spawnEnemy and spawnPickup alone, for players in the corners, *)
(* near the edges and in the middle of the arena, and draws of             *)
(* Math.random that fall near the player and far from it.                  *)

\* Positions of the player in pixels, within what Player.update allows.
PlayerSpots ==
    {Point(16, 16), Point(1184, 784), Point(16, 784), Point(1184, 16),
     Point(600, 400), Point(60, 30), Point(99, 400), Point(600, 90),
     Point(1150, 700), Point(100, 760)}

PlaceScenes ==
    {[Scene(3, <<>>, <<>>, <<>>) EXCEPT !.player.x = spot.x * PX,
                                        !.player.y = spot.y * PX] :
        spot \in PlayerSpots}

\* Draws of randomRange(margin, ARENA_WIDTH - margin) and
\* randomRange(margin, ARENA_HEIGHT - margin), in position units.
AlongDraws ==
    {Point(50 * PX, 50 * PX), Point(100 * PX, 100 * PX),
     Point(600 * PX, 400 * PX), Point(1150 * PX - 1, 750 * PX - 1)}

EdgeRnds ==
    {[NoRnd EXCEPT !.enemyType = type, !.edge = edge,
                   !.first = first, !.second = second] :
        type \in {3}, edge \in 0..3,
        first \in AlongDraws, second \in AlongDraws}

\* The calls of the two functions together.
MaxSpawned == 1

\* Game.spawnEnemy
SpawnEnemy ==
    \E rnd \in EdgeRnds :
        /\ Len(game.enemies) + Len(game.pickups) < MaxSpawned
        /\ game' = spawnEnemy(game, rnd)
        /\ ev' = [Ev("spawnEnemy") EXCEPT
                    !.drawn = <<edgePoint(rnd.edge, rnd.first),
                                edgePoint((rnd.edge + 2) % 4, rnd.second)>>]
        /\ UNCHANGED <<gestureVars, inputVars, dateNow, hist>>

\* A draw of randomRange(PICKUP_RADIUS, ARENA_WIDTH - PICKUP_RADIUS) and
\* randomRange(PICKUP_RADIUS, ARENA_HEIGHT - PICKUP_RADIUS) as near to the
\* point (px + dx, py + dy) as the ranges allow.
DrawNear(px, py, dx, dy) ==
    Point(clamp(px + dx, PICKUP_RADIUS * PX, (ARENA_WIDTH - PICKUP_RADIUS) * PX - 1),
          clamp(py + dy, PICKUP_RADIUS * PX, (ARENA_HEIGHT - PICKUP_RADIUS) * PX - 1))

\* Offsets from the player: on it, at 50 px from it, and just below 50 px.
NearOffsets == {Point(0, 0), Point(30 * PX, 40 * PX), Point(30 * PX - 1, 40 * PX)}

\* A draw at 110 px or more from every position of PlayerSpots.
FarDraw == Point(600 * PX, 200 * PX)

\* The draws of one call: the first tooClose of them at the near point,
\* the others at the far one.
PickupRnds(player) ==
    {[NoRnd EXCEPT
        !.pickupType = 4,
        !.draws = [i \in 1..PICKUP_DRAWS |->
                      IF i <= tooClose
                      THEN DrawNear(player.x, player.y, near.x, near.y)
                      ELSE FarDraw]] :
        tooClose \in {0, 1, PICKUP_DRAWS - 1, PICKUP_DRAWS},
        near \in NearOffsets}

\* Game.spawnPickup
SpawnPickup ==
    \E rnd \in PickupRnds(game.player) :
        /\ Len(game.enemies) + Len(game.pickups) < MaxSpawned
        /\ game' = spawnPickup(game, rnd)
        /\ ev' = [Ev("spawnPickup") EXCEPT
                    !.drawn = [i \in 1..PICKUP_DRAWS |-> rnd.draws[i]]]
        /\ UNCHANGED <<gestureVars, inputVars, dateNow, hist>>

PlaceNext == SpawnEnemy \/ SpawnPickup

SpecPlace == GameInit(PlaceScenes) /\ [][PlaceNext]_vars

(* Keys: the two keys mapped to up, one mapped to down and one mapped to   *)
(* right go down and, once down, up again, between ticks of the loop.      *)

HeldCodes == {"KeyW", "ArrowUp", "KeyS", "KeyD"}

MaxKeyTicks == 2

KeysNext ==
    \/ KeyDown(HeldCodes)
    \/ KeyUp(hist.held)
    \/ GameLoop({MAX_DELTA}, {NoRnd}, MaxKeyTicks * MAX_DELTA)

SpecKeys == GameInit({Scene(3, <<>>, <<>>, <<>>)}) /\ [][KeysNext]_vars

(* The event bus of the game: callbacks that do nothing more, that         *)
(* unsubscribe themselves and that unsubscribe another callback are        *)
(* subscribed and unsubscribed, and the events are emitted.                *)

Callbacks ==
    {[id |-> 1, off |-> 0], [id |-> 2, off |-> 2], [id |-> 3, off |-> 1]}

\* The subscriptions of all events together.
MaxListeners == 3

Subscriptions(bus) ==
    Len(bus.listeners["stateChanged"]) + Len(bus.listeners["gameOver"])

\* eventBus.on(event, callback)
On ==
    \E event \in BusEvents, callback \in Callbacks :
        /\ Subscriptions(game.eventBus) < MaxListeners
        /\ game' = [game EXCEPT !.eventBus = on(@, event, callback)]
        /\ ev' = [Ev("on") EXCEPT !.event = event, !.callback = callback.id]
        /\ UNCHANGED <<gestureVars, inputVars, dateNow, hist>>

\* eventBus.off(event, callback)
Off ==
    \E event \in BusEvents, callback \in Callbacks :
        /\ game' = [game EXCEPT !.eventBus = off(@, event, callback)]
        /\ ev' = [Ev("off") EXCEPT !.event = event, !.callback = callback.id]
        /\ UNCHANGED <<gestureVars, inputVars, dateNow, hist>>

\* eventBus.emit(event, data)
Emit ==
    \E event \in BusEvents :
        /\ game' = [game EXCEPT
                      !.eventBus = emit(@, event, Callbacks).bus]
        /\ ev' = [Ev("emit") EXCEPT
                    !.event = event,
                    !.called = emit(game.eventBus, event, Callbacks).called]
        /\ UNCHANGED <<gestureVars, inputVars, dateNow, hist>>

BusNext == On \/ Off \/ Emit

SpecBus == GameInit({BootGame}) /\ [][BusNext]_vars

----------------------------------------------------------------------------
(* Claims about the pinch hysteresis *)

InBand(hand, onThreshold, offThreshold) ==
    /\ hand.present
    /\ distNormSq(hand) >= onThreshold * onThreshold
    /\ distNormSq(hand) <= offThreshold * offThreshold

\* C1: for each hand, over a run of frames in which the hand is present and
\* its tip distance never exceeds the exit threshold, once a frame of the
\* run is below the enter threshold the pinch is active after that frame
\* and after every later frame of the run.
C1_NoChatter ==
    /\ pinchRun.Right => gestureInput.rightPinchActive
    /\ pinchRun.Left => gestureInput.leftPinchActive

\* A run that entered the pinch and now sits between the two thresholds,
\* for both hands.
C1_Witness ==
    /\ pinchRun.Right
    /\ pinchRun.Left
    /\ InBand(rightHand(results), rightPinchOnThreshold, rightPinchOffThreshold)
    /\ InBand(leftHand(results), leftPinchOnThreshold, leftPinchOffThreshold)
    /\ Len(results) = 2

OnlyLabel(frame, label) == SelectSeq(frame, LAMBDA h : h.label = label)

\* What stands in for the other hand: nothing, or a record of either label
\* that pinches (30) or is wide open (61).
OtherHand ==
    {<<>>} \cup {<<h>> : h \in {r \in HandRecords(PinchFingerTips) :
                                  distNormSq(r) \in {30 * 30, 61 * 61}}}

\* C2: between two consecutive frames a pinch state goes from inactive to
\* active only if that hand's tip distance is below its enter threshold,
\* and from active to inactive only if the distance is above its exit
\* threshold or the hand is absent; the hands are independent: the new
\* pinch state of a hand is the same whatever the other hand's landmarks
\* are (removed, or replaced by any other record).
C2_PinchTransitions ==
    [][LET r == rightHand(results')
           l == leftHand(results')
           rightOnly == OnlyLabel(results', "Right")
           leftOnly == OnlyLabel(results', "Left")
       IN /\ (~gestureInput.rightPinchActive /\ gestureInput'.rightPinchActive)
               => (r.present /\ distNormSq(r)
                      < rightPinchOnThreshold * rightPinchOnThreshold)
          /\ (gestureInput.rightPinchActive /\ ~gestureInput'.rightPinchActive)
               => (~r.present \/ distNormSq(r)
                      > rightPinchOffThreshold * rightPinchOffThreshold)
          /\ (~gestureInput.leftPinchActive /\ gestureInput'.leftPinchActive)
               => (l.present /\ distNormSq(l)
                      < leftPinchOnThreshold * leftPinchOnThreshold)
          /\ (gestureInput.leftPinchActive /\ ~gestureInput'.leftPinchActive)
               => (~l.present \/ distNormSq(l)
                      > leftPinchOffThreshold * leftPinchOffThreshold)
          /\ \A other \in OtherHand :
               /\ (other = <<>> \/ other[1].label = "Left")
                    => onResults(gestureInput, other \o rightOnly).rightPinchActive
                         = gestureInput'.rightPinchActive
               /\ (other = <<>> \/ other[1].label = "Right")
                    => onResults(gestureInput, other \o leftOnly).leftPinchActive
                         = gestureInput'.leftPinchActive
      ]_vars

\* The right pinch held between the thresholds while the left hand, also
\* between its thresholds, has not entered the pinch.
C2_Witness ==
    /\ gestureInput.rightPinchActive
    /\ ~gestureInput.leftPinchActive
    /\ InBand(rightHand(results), rightPinchOnThreshold, rightPinchOffThreshold)
    /\ InBand(leftHand(results), leftPinchOnThreshold, leftPinchOffThreshold)

----------------------------------------------------------------------------
(* Claims about the provider registry *)

Registered(im) == {im.providers[n] : n \in RegistryNames} \ {NoProvider}

\* C9: when the active provider's update raises an error inside
\* InputManager.update and a fallback provider distinct from the active one
\* has been registered (under any registry name), the active provider is
\* the fallback provider when update returns; with no distinct fallback
\* the active provider is unchanged.
C9_FallbackSwitch ==
    (ev.op = "update" /\ ev.fault /\ ev.activeBefore # NoProvider) =>
        IF /\ inputManager.fallbackProvider # NoProvider
           /\ inputManager.fallbackProvider # ev.activeBefore
        THEN inputManager.activeProvider = inputManager.fallbackProvider
        ELSE inputManager.activeProvider = ev.activeBefore

\* C10: once a provider has been registered, exactly one provider is active
\* and it is held in the registry; the first provider registered becomes
\* active; setActiveProvider with an unregistered name changes nothing.
C10_ActiveInRegistry ==
    /\ Registered(inputManager) # {} =>
          inputManager.activeProvider \in Registered(inputManager)
    /\ (ev.op = "registerProvider" /\ ev.activeBefore = NoProvider) =>
          inputManager.activeProvider = ev.provider
    /\ (ev.op = "setActiveProvider" /\ ~ev.known) =>
          inputManager.activeProvider = ev.activeBefore

----------------------------------------------------------------------------
(* Claims about collision resolution *)

Ticked == ev.op \in {"gameLoop", "start", "restart"}

Overlaps(at, radius, pickup) ==
    checkCircleCollision([x |-> at.x, y |-> at.y, radius |-> radius], pickup)

\* The pickup of a log entry was, when it was collected, the overlapping
\* pickup nearest to the player's centre.
Nearest(entry) ==
    /\ Overlaps(entry.player, PX * PLAYER_RADIUS, entry.pickup)
    /\ \A i \in 1..Len(entry.pickups) :
          Overlaps(entry.player, PX * PLAYER_RADIUS, entry.pickups[i])
            => distanceSq(entry.player.x, entry.player.y,
                          entry.pickup.x, entry.pickup.y)
                 <= distanceSq(entry.player.x, entry.player.y,
                               entry.pickups[i].x, entry.pickups[i].y)

\* C3: one call of Game.update removes and applies at most one pickup, and
\* that pickup is the overlapping pickup nearest to the player at that
\* moment.
C3_OnePickupPerTick ==
    Ticked =>
        /\ Len(ev.log.collected) <= 1
        /\ \A i \in 1..Len(ev.log.collected) : Nearest(ev.log.collected[i])

\* C4: the kill counter grows, in a tick, by the number of enemies that
\* collision resolution took from alive to not alive.
C4_OneKillPerDeath == Ticked => ev.log.kills = ev.log.deaths

----------------------------------------------------------------------------
(* Claims about the weapon switch and the creator-mode toggle *)

PlayingTick == ev'.op = "gameLoop" /\ game.isRunning /\ game.currentState = "playing"

RaiseSignal(code) == ev'.op = "keydown" /\ ev'.code = code

\* C5: a raise signal raises its flag when the cooldown since the last
\* toggle is over and changes nothing otherwise, however often it repeats;
\* a tick in PLAYING applies exactly one toggle for a raised flag, none
\* otherwise, and two toggles are never closer than the cooldown.
C5_OneTogglePerCooldown ==
    [][/\ RaiseSignal("KeyR") =>
            inputManager'.switchWeapon =
                (inputManager.switchWeapon
                 \/ dateNow - hist.lastToggle.weapon >= weaponSwitchCooldown)
       /\ RaiseSignal("KeyG") =>
            inputManager'.creatorMode =
                (inputManager.creatorMode
                 \/ dateNow - hist.lastToggle.creator >= creatorModeToggleCooldown)
       /\ PlayingTick =>
            /\ ev'.log.weaponToggles =
                  (IF inputManager.switchWeapon \/ ev'.log.pinchRaised
                   THEN 1 ELSE 0)
            /\ ev'.log.weaponToggles = 1 =>
                  dateNow - hist.lastToggle.weapon >= weaponSwitchCooldown
            /\ ev'.log.creatorToggles =
                  (IF inputManager.creatorMode THEN 1 ELSE 0)
            /\ ev'.log.creatorToggles = 1 =>
                  dateNow - hist.lastToggle.creator >= creatorModeToggleCooldown
      ]_vars

\* Both toggles applied a second time, each in answer to two or more raise
\* signals that arrived at one reading of the clock.
C5_Witness ==
    /\ ev.op = "gameLoop"
    /\ ev.log.weaponToggles = 1 /\ ev.log.creatorToggles = 1
    /\ ev.answered.weapon >= 2 /\ ev.answered.creator >= 2
    /\ game.currentWeaponKey = "knife" /\ ~game.creatorMode

\* C6: a raised flag is lowered by its clear and by nothing else, and a
\* lowered flag is raised, by a key-down or by the left pinch's rising
\* edge, only when the cooldown since the last clear is over.
C6_RaisedUntilCleared ==
    [][/\ (inputManager.switchWeapon /\ ~inputManager'.switchWeapon) =>
            /\ ev'.log.weaponToggles >= 1
            /\ inputManager'.lastWeaponSwitchTime = dateNow
       /\ (~inputManager.switchWeapon /\ inputManager'.switchWeapon) =>
            /\ RaiseSignal("KeyR")
            /\ dateNow - hist.lastToggle.weapon >= weaponSwitchCooldown
       /\ ev'.log.pinchRaised =>
            dateNow - hist.lastToggle.weapon >= weaponSwitchCooldown
       /\ (inputManager.creatorMode /\ ~inputManager'.creatorMode) =>
            /\ ev'.log.creatorToggles >= 1
            /\ inputManager'.lastCreatorModeToggleTime = dateNow
       /\ (~inputManager.creatorMode /\ inputManager'.creatorMode) =>
            /\ RaiseSignal("KeyG")
            /\ dateNow - hist.lastToggle.creator >= creatorModeToggleCooldown
      ]_vars

\* The weapon switch raised anew by the R key after a toggle, the left
\* pinch having raised it before.
C6_Witness ==
    /\ ev.op = "keydown" /\ ev.code = "KeyR"
    /\ inputManager.switchWeapon
    /\ hist.lastToggle.weapon >= NowStart
    /\ game.prevLeftPinchActive
    /\ dateNow - hist.lastToggle.weapon >= weaponSwitchCooldown

----------------------------------------------------------------------------
(* Claims about the pistol haste *)

\* C7: a tick that applies a pistol-haste pickup leaves the pistol's fire
\* interval at a third of the base interval, and once 10 s of PLAYING time
\* have passed since the last such pickup the fire interval is the base
\* interval again.
C7_HasteRevert ==
    /\ (Ticked /\ Count(ev.log.collected, IsHaste) > 0) =>
          /\ game.pistolHasteActive
          /\ 3 * game.weapons.pistol.fireRate = game.pistolBaseFireRate
    /\ hist.hasteElapsed >= HASTE_DURATION =>
          /\ ~game.pistolHasteActive
          /\ game.weapons.pistol.fireRate = game.pistolBaseFireRate

\* The haste has run its 10 s: the interval is back at the base interval,
\* which the creator mode has changed meanwhile.
C7_Witness ==
    /\ hist.hasteElapsed >= HASTE_DURATION
    /\ game.creatorMode
    /\ game.weapons.pistol.fireRate = game.originalPistolFireRate \div 5

Fresh(g) ==
    /\ g.currentState = "playing"
    /\ g.killCount = 0
    /\ g.enemies = <<>> /\ g.projectiles = <<>> /\ g.pickups = <<>>
    /\ g.enemySpawnTimer = 0 /\ g.pickupSpawnTimer = 0
    /\ g.pistolHasteRemaining = 0
    /\ ~g.pistolHasteActive
    /\ g.player.hp = g.player.maxHp
    /\ g.player = [NewPlayer((ARENA_WIDTH * PX) \div 2,
                             (ARENA_HEIGHT * PX) \div 2)
                     EXCEPT !.weapon = "pistol"]

\* C8: restart() called in the GAME_OVER state leaves the state PLAYING,
\* the kill counter 0, the enemy, projectile and pickup lists empty, both
\* spawn timers and the haste timer 0, the haste inactive and a fresh
\* player at full hp at the arena's centre, whatever the game was before.
C8_RestartIsFresh ==
    (ev.op = "restart" /\ ev.before.state = "game_over") => Fresh(game)

\* A lost game with kills, entities and a running haste has been restarted.
C8_Witness ==
    /\ ev.op = "restart"
    /\ ev.before.state = "game_over"
    /\ ev.before.killCount > 0
    /\ ev.before.entities > 2
    /\ ev.before.haste
    /\ Fresh(game)

\* The entity state a tick outside PLAYING is said to leave alone.
EntityState(g) ==
    [hp |-> g.player.hp, x |-> g.player.x, y |-> g.player.y,
     enemyHp |-> [i \in 1..Len(g.enemies) |-> g.enemies[i].hp],
     flying |-> [i \in 1..Len(g.projectiles) |-> g.projectiles[i].alive],
     pickups |-> g.pickups,
     ammo |-> [k \in DOMAIN g.weapons |-> g.weapons[k].currentAmmo],
     hasteActive |-> g.pistolHasteActive,
     hasteRemaining |-> g.pistolHasteRemaining,
     killCount |-> g.killCount]

\* C11: a tick that begins in a state other than PLAYING leaves the player's
\* hp and position, the enemies' hp, the projectiles' alive flags, the
\* pickup list, the weapons' ammo, the haste and the kill counter unchanged.
C11_FrozenOutsidePlaying ==
    [][(game.currentState # "playing" /\ ev'.op = "gameLoop")
          => EntityState(game') = EntityState(game)]_vars

StateChange(from, to, op) ==
    /\ game.currentState = from
    /\ game'.currentState = to
    /\ ev'.op = op

Framed == ev.op = "onResults"

\* C13: after a frame without a hand's landmarks that hand's pinch is
\* inactive, and after a frame without the movement hand (label Right)
\* getMoveVector returns the zero vector.
C13_AbsentHandNeutral ==
    Framed =>
        /\ ~leftHand(results).present => ~gestureInput.leftPinchActive
        /\ ~rightHand(results).present =>
              /\ ~gestureInput.rightPinchActive
              /\ getMoveVector(gestureInput) = Point(0, 0)

\* The frame without hands found both pinches active and the player moving.
C13_Witness ==
    /\ Framed
    /\ results = <<>>
    /\ ev.gesture.leftPinchActive /\ ev.gesture.rightPinchActive
    /\ ev.gesture.moveVector # Point(0, 0)
    /\ ~gestureInput.leftPinchActive /\ ~gestureInput.rightPinchActive
    /\ getMoveVector(gestureInput) = Point(0, 0)

\* C14: after a frame in which the aiming hand (label Left) is absent or
\* its fingertip lies outside the interaction region, gesture shooting is
\* not active and getGestureAimTargetGame returns null.
C14_AimInactive ==
    (Framed /\ ~(leftHand(results).present /\ withinRegion(leftHand(results))))
        => /\ ~isGestureShootingActive(gestureInput)
           /\ ~getGestureAimTargetGame(gestureInput).has

\* The frame is an aim frame: an overlay, the aiming hand in the region.
AimFrame == Framed /\ gestureInput.overlay /\ withinRegion(leftHand(results))
                   /\ leftHand(results).present

\* Two aim points (1 / AimScale px) less than d pixels apart.
CloserThan(a, b, d) ==
    /\ Abs(a.x - b.x) < d * AimScale
    /\ Abs(a.y - b.y) < d * AimScale
    /\ (a.x - b.x) * (a.x - b.x) + (a.y - b.y) * (a.y - b.y)
          < d * d * AimScale * AimScale

\* The aim frame follows an aim frame, and its raw point is less than the
\* deadzone away from the smoothed point it found.
InDeadzone ==
    /\ AimFrame
    /\ ev.gesture.gestureShootingActive
    /\ ev.gesture.gestureAimSmoothed.has
    /\ CloserThan(rawAim(leftHand(results)), ev.gesture.gestureAimSmoothed, 6)

\* C15: an in-region aim frame that follows one, with its raw mapped point
\* less than 6 px (Euclidean) from the smoothed point, leaves the smoothed
\* point and the reported aim target exactly as they were.
C15_DeadzoneHolds ==
    InDeadzone =>
        /\ gestureInput.gestureAimSmoothed = ev.gesture.gestureAimSmoothed
        /\ getGestureAimTargetGame(gestureInput)
              = getGestureAimTargetGame(ev.gesture)

\* The raw point has moved, by less than the deadzone, and the aim has not.
C15_Witness ==
    /\ InDeadzone
    /\ rawAim(leftHand(results)).x # gestureInput.gestureAimSmoothed.x
    /\ rawAim(leftHand(results)).y # gestureInput.gestureAimSmoothed.y
    /\ gestureInput.gestureAimSmoothed = ev.gesture.gestureAimSmoothed

\* The smoothed point is the held point, or the held point moved by 0.4 of
\* the way to the raw point.
ContinuesFrom(held, raw, smoothed) ==
    \/ /\ CloserThan(raw, held, aimDeadzonePx)
       /\ smoothed.x = held.x /\ smoothed.y = held.y
    \/ /\ ~CloserThan(raw, held, aimDeadzonePx)
       /\ 10 * smoothed.x = 6 * held.x + 4 * raw.x
       /\ 10 * smoothed.y = 6 * held.y + 4 * raw.y

\* C16: once set, the smoothing accumulator is never cleared: a frame
\* without the aiming hand, with the fingertip outside the region or with
\* no hands leaves it exactly unchanged, and an in-region frame smooths on
\* from the held value.
C16_AccumulatorHeld ==
    (Framed /\ ev.gesture.gestureAimSmoothed.has) =>
        /\ gestureInput.gestureAimSmoothed.has
        /\ ~AimFrame =>
              gestureInput.gestureAimSmoothed = ev.gesture.gestureAimSmoothed
        /\ AimFrame =>
              ContinuesFrom(ev.gesture.gestureAimSmoothed,
                            rawAim(leftHand(results)),
                            gestureInput.gestureAimSmoothed)

\* The aim is back in the region, far from the point held over the frames
\* without aim, and has moved on from that point.
C16_Witness ==
    /\ AimFrame
    /\ ev.gesture.gestureAimSmoothed.has
    /\ ~ev.gesture.gestureShootingActive
    /\ ~CloserThan(rawAim(leftHand(results)), ev.gesture.gestureAimSmoothed,
                   aimDeadzonePx)
    /\ gestureInput.gestureAimSmoothed # ev.gesture.gestureAimSmoothed
    /\ gestureInput.gestureAimSmoothed.x # rawAim(leftHand(results)).x

\* The operations that run a tick of the loop.
TickOps == {"gameLoop", "start", "restart"}

\* C17: the movement vector handed to the player in a PLAYING tick is one
\* of the two channel vectors, never a combination of them: the keyboard's
\* vector when |x| > 0.01 or |y| > 0.01 holds for it, and otherwise the
\* gesture's vector, or the zero vector when the gesture manager is not
\* initialized; a tick hands over one vector, a tick outside PLAYING none.
C17_OneChannel ==
    [][ev'.op \in TickOps =>
        LET moved == ev'.log.moved
            keyboard == inputManager'.moveVector
            gesture == IF gestureInput.initialized
                       THEN Point(gestureInput.moveVector.x,
                                  -gestureInput.moveVector.y)
                       ELSE Point(0, 0)
        IN /\ Len(moved) <= 1
           /\ (ev'.op = "gameLoop" /\ game.currentState = "playing")
                => Len(moved) = 1
           /\ Len(moved) = 1
                => moved[1] = IF Abs(keyboard.x) > 10 \/ Abs(keyboard.y) > 10
                              THEN keyboard ELSE gesture]_vars

\* A tick with both channels off zero and apart: the keyboard's diagonal is
\* handed over while the Right hand points elsewhere.
C17_Witness ==
    /\ ev.op = "gameLoop"
    /\ inputManager.moveVector.x # 0
    /\ inputManager.moveVector.y # 0
    /\ gestureInput.initialized
    /\ gestureInput.moveVector # Point(0, 0)
    /\ ev.log.moved = <<inputManager.moveVector>>
    /\ getMoveVector(gestureInput) # inputManager.moveVector

\* C18: in a PLAYING tick with gesture shooting active and an aim target
\* player.fire is called exactly once, with the gesture's aim point, and the
\* pointer position is overwritten by that point, whatever the mouse button
\* does; with gesture shooting not active player.fire is called, with the
\* pointer position, if and only if the firing flag is set.  Gesture
\* shooting active always implies that an aim target exists.
C18_FireChannel ==
    [][/\ gestureInput'.gestureShootingActive
            => gestureInput'.gestureAimTargetGame.has
       /\ (ev'.op \in {"gameLoop", "start"} /\ game.currentState = "playing")
            => LET fired == ev'.log.fired
                   target == gestureInput.gestureAimTargetGame
               IN IF gestureInput.gestureShootingActive
                  THEN target.has
                       => /\ fired = <<Point(target.x * PX, target.y * PX)>>
                          /\ inputManager'.mouseX = target.x * AimScale
                          /\ inputManager'.mouseY = target.y * AimScale
                  ELSE /\ fired = IF inputManager'.fire
                                  THEN <<Point(aimToPosition(inputManager.mouseX),
                                               aimToPosition(inputManager.mouseY))>>
                                  ELSE <<>>
                       /\ inputManager'.mouseX = inputManager.mouseX
                       /\ inputManager'.mouseY = inputManager.mouseY]_vars

\* A tick that fired at the gesture's aim point with the mouse button up and
\* moved the pointer from where the mouse had left it.
C18_Witness ==
    /\ ev.op = "gameLoop"
    /\ gestureInput.gestureShootingActive
    /\ ~inputManager.fire
    /\ Len(ev.log.fired) = 1
    /\ inputManager.mouseX = gestureInput.gestureAimTargetGame.x * AimScale
    /\ Len(game.projectiles) > 0
    /\ \E i \in 1..Len(game.projectiles) : game.projectiles[i].vx < 0

\* The game handleCollisions leaves when projectile i is not on the list.
CollidedWithout(i) ==
    handleCollisions([World EXCEPT !.game.projectiles = RemoveAt(@, i)],
                     gestureInput).game

HpOf(entities) == [e \in 1..Len(entities) |-> entities[e].hp]

\* C19: in handleCollisions a projectile with owner 'player' never changes
\* the player's hp, a projectile whose owner is neither 'player' nor null
\* never changes any enemy's hp, and a projectile with owner null changes
\* nobody's hp and is never deactivated by collision: the call leaves the
\* hp in question as it leaves it with that projectile taken off the list,
\* and the alive flag of a projectile with owner null as it found it.
C19_ProjectileOwners ==
    [][ev'.op = "handleCollisions" =>
        \A i \in 1..Len(game.projectiles) :
            LET owner == game.projectiles[i].owner
                without == CollidedWithout(i)
            IN /\ (owner = "player" \/ owner = NoOwner)
                    => game'.player.hp = without.player.hp
               /\ owner # "player"
                    => HpOf(game'.enemies) = HpOf(without.enemies)
               /\ owner = NoOwner
                    => game'.projectiles[i].alive = game.projectiles[i].alive]_vars

\* handleCollisions has run over a projectile with owner null that lies on a
\* player who can take damage and over an enemy's projectile that lies on
\* the enemy: the player and the enemy have all their hp.
C19_Witness ==
    /\ ev.op = "handleCollisions"
    /\ game.player.hp = game.player.maxHp
    /\ canTakeDamage(game.player)
    /\ \E i \in 1..Len(game.projectiles) :
          /\ game.projectiles[i].owner = NoOwner
          /\ game.projectiles[i].alive
          /\ checkCircleCollision(game.projectiles[i], game.player)
    /\ \E i \in 1..Len(game.projectiles), e \in 1..Len(game.enemies) :
          /\ game.projectiles[i].owner = "shooter"
          /\ checkCircleCollision(game.projectiles[i], game.enemies[e])
          /\ game.enemies[e].hp = NewEnemy("tank", 0, 0).hp

\* The list with the entries at the given indices taken out.
RECURSIVE Except(_, _, _)
Except(list, indices, i) ==
    IF i > Len(list) THEN <<>>
    ELSE (IF i \in indices THEN <<>> ELSE <<list[i]>>)
         \o Except(list, indices, i + 1)

DistSqTo(player, pickup) == distanceSq(player.x, player.y, pickup.x, pickup.y)

\* C20: a pickup leaves the pickup list only as the confirmed candidate of
\* handleCollisions (it overlaps the player, no overlapping pickup that
\* stays is nearer, and the F key or the right pinch is active in that
\* tick) or by a restart: events other than ticks and restarts leave the
\* list alone, a tick leaves what it does not collect in place and in
\* order, however much time has passed, and a tick in which neither confirm
\* signal is true applies no pickup effect (no ammunition, no hp, no haste
\* gained).
C20_PickupsLeaveByConfirm ==
    [][LET confirm == inputManager'.pickup \/ gestureInput.rightPinchActive
           before == game.pickups
           kept == SubSeq(game'.pickups, 1,
                          Len(game'.pickups) - ev'.log.spawnedPickups)
           at == Point(game'.player.x, game'.player.y)
       IN /\ ev'.op \notin TickOps => game'.pickups = before
          /\ ev'.op \in {"gameLoop", "start"} =>
               /\ \E gone \in SUBSET (1..Len(before)) :
                     /\ kept = Except(before, gone, 1)
                     /\ gone # {} => confirm
                     /\ \A i \in gone :
                           /\ Overlaps(at, PX * PLAYER_RADIUS, before[i])
                           /\ \A j \in (1..Len(before)) \ gone :
                                 Overlaps(at, PX * PLAYER_RADIUS, before[j])
                                   => DistSqTo(at, before[i])
                                        <= DistSqTo(at, before[j])
               /\ ~confirm =>
                     /\ ev'.log.collected = <<>>
                     /\ game'.weapons.machine_gun.currentAmmo
                          <= game.weapons.machine_gun.currentAmmo
                     /\ game'.weapons.grenade.currentAmmo
                          <= game.weapons.grenade.currentAmmo
                     /\ game'.player.hp <= game.player.hp
                     /\ game'.pistolHasteActive => game.pistolHasteActive
                     /\ game'.pistolHasteRemaining <= game.pistolHasteRemaining]_vars

\* The last tick of a run has collected a pickup on a confirm signal, and
\* the pickup out of the player's reach has stayed through every tick.
C20_Witness ==
    /\ ev.op = "gameLoop"
    /\ hist.time = MaxLootTicks * MAX_DELTA
    /\ Len(ev.log.collected) > 0
    /\ inputManager.pickup \/ gestureInput.rightPinchActive
    /\ \E i \in 1..Len(game.pickups) :
          ~Overlaps(Point(game.player.x, game.player.y), PX * PLAYER_RADIUS,
                    game.pickups[i])

\* distance < r1 + r2 + 0.001 px for the pair of circles, as an inequality
\* of whole numbers: with e thousandths of a pixel to the position unit,
\* e * e * distance^2 < (e * (r1 + r2) + 1)^2.
WithinEpsilon(a, b) ==
    LET e == 1000 \div PX
    IN e * e * distanceSq(a.x, a.y, b.x, b.y)
         < (e * (a.radius + b.radius) + 1) * (e * (a.radius + b.radius) + 1)

\* C21: checkCircleCollision(a, b) is true exactly when the distance of the
\* centres is less than radius(a) + radius(b) + 0.001; two circles that
\* touch exactly collide, the result is the same for (a, b) and (b, a), and
\* getCollisionInfo(a, b) is non-null exactly when checkCircleCollision(a, b)
\* is true.
C21_CircleCollision ==
    ev.op = "checkCircleCollision" =>
        LET a == ev.circles[1]
            b == ev.circles[2]
            R == a.radius + b.radius
        IN /\ ev.collision.ab = WithinEpsilon(a, b)
           /\ distanceSq(a.x, a.y, b.x, b.y) = R * R => ev.collision.ab
           /\ ev.collision.ba = ev.collision.ab
           /\ ev.collision.info.has = ev.collision.ab

\* A pair whose centres are farther apart than the sum of the radii, by
\* less than 0.001 px, was found to collide: (440, 1) with radii 16 and 28 px.
C21_Witness ==
    /\ ev.op = "checkCircleCollision"
    /\ ev.collision.ab
    /\ ev.collision.info.has
    /\ LET a == ev.circles[1]
           b == ev.circles[2]
       IN distanceSq(a.x, a.y, b.x, b.y)
            > (a.radius + b.radius) * (a.radius + b.radius)

\* C22: the delta time gameLoop passes to Game.update never exceeds 1/30 s,
\* whatever the gap between two frames; it is the gap itself when the gap
\* is shorter.
C22_DeltaCapped ==
    Ticked =>
        \A i \in 1..Len(ev.log.dts) :
            /\ 30 * ev.log.dts[i] <= SECOND
            /\ ev.op = "gameLoop" =>
                 (30 * ev.elapsed <= SECOND => ev.log.dts[i] = ev.elapsed)

\* A frame ten seconds after the one before it ran update once, with 1/30 s.
C22_Witness ==
    /\ ev.op = "gameLoop"
    /\ ev.elapsed = 10 * SECOND
    /\ ev.log.dts = <<SECOND \div 30>>
    /\ game.enemySpawnTimer < ev.elapsed

\* C23: the gesture controls are mapped as the README table states: a
\* left-hand pinch confirms picking up the candidate item and a right-hand
\* pinch requests a weapon switch; the left hand's position drives movement
\* and the right hand's position drives aiming.  So a tick collects a
\* pickup without the F key only under a left pinch, a pinch raises the
\* weapon switch only when it is the right hand's, and a frame yields a
\* movement vector only from a Left hand and an aim only from a Right hand.
C23_ReadmeMapping ==
    [][/\ (ev'.op = "gameLoop" /\ ev'.log.collected # <<>>
           /\ ~inputManager'.pickup)
            => gestureInput.leftPinchActive
       /\ (ev'.op = "gameLoop" /\ ev'.log.pinchRaised)
            => gestureInput.rightPinchActive
       /\ (ev'.op = "onResults"
           /\ gestureInput'.moveVector # Point(0, 0))
            => leftHand(results').present
       /\ (ev'.op = "onResults" /\ gestureInput'.gestureShootingActive)
            => rightHand(results').present]_vars

\* The left pinch is active and was not on the PLAYING tick before.
RisingEdge == gestureInput.leftPinchActive /\ ~game.prevLeftPinchActive

\* C24: a left pinch that stays active over consecutive PLAYING ticks causes
\* at most one weapon toggle: the pinch requests the switch only on the tick
\* where it is active and was inactive on the previous PLAYING tick, and
\* each such rising edge is applied exactly once.
C24_EdgeAppliedOnce ==
    [][PlayingTick =>
        /\ ev'.log.pinchRaised => RisingEdge
        /\ RisingEdge => ev'.log.weaponToggles = 1
        /\ (~RisingEdge /\ ~inputManager.switchWeapon)
             => ev'.log.weaponToggles = 0
        /\ game'.prevLeftPinchActive = gestureInput.leftPinchActive]_vars

\* C24, amended: the pinch requests the switch only on a rising edge; a
\* rising edge met when the cooldown since the last switch is over is
\* applied exactly once, in that tick, a rising edge met within the cooldown
\* is applied never, and a tick without a rising edge and without a key's
\* request applies no toggle.
C24_EdgeAppliedOncePerCooldown ==
    [][PlayingTick =>
        LET cooldownOver == dateNow - inputManager.lastWeaponSwitchTime
                              >= weaponSwitchCooldown
        IN /\ ev'.log.pinchRaised => (RisingEdge /\ cooldownOver)
           /\ (RisingEdge /\ cooldownOver) => ev'.log.weaponToggles = 1
           /\ (RisingEdge /\ ~cooldownOver) =>
                 /\ ev'.log.weaponToggles = 0
                 /\ ~inputManager'.switchWeapon
           /\ (~RisingEdge /\ ~inputManager.switchWeapon)
                => ev'.log.weaponToggles = 0
           /\ game'.prevLeftPinchActive = gestureInput.leftPinchActive]_vars

\* A tick has met a rising edge within the cooldown of an earlier toggle
\* and has not toggled; the pinch is now held.
C24_Witness ==
    /\ ev.op = "gameLoop"
    /\ ev.log.pinchEdge
    /\ ev.log.weaponToggles = 0
    /\ game.prevLeftPinchActive
    /\ game.currentWeaponKey # "pistol"
    /\ dateNow - inputManager.lastWeaponSwitchTime < weaponSwitchCooldown

\* C25: enemies and pickups spawn at fixed intervals of accumulated PLAYING
\* time: a tick spawns an enemy exactly when the enemy spawn timer, the
\* tick's delta added, reaches 2.0 s, and a pickup exactly when the pickup
\* timer reaches 8.0 s; the timer is then reset to 0, a tick spawns at most
\* one enemy and one pickup, and outside PLAYING the timers stand still and
\* nothing spawns.
C25_SpawnIntervals ==
    [][ev'.op = "gameLoop" =>
        LET enemyDue == game.enemySpawnTimer + ev'.dt >= 2 * SECOND
            pickupDue == game.pickupSpawnTimer + ev'.dt >= 8 * SECOND
            spawned == ev'.log.spawnedEnemies
            dropped == ev'.log.spawnedPickups
        IN IF game.currentState = "playing"
           THEN /\ spawned = IF enemyDue THEN 1 ELSE 0
                /\ dropped = IF pickupDue THEN 1 ELSE 0
                /\ game'.enemySpawnTimer =
                      IF enemyDue THEN 0 ELSE game.enemySpawnTimer + ev'.dt
                /\ game'.pickupSpawnTimer =
                      IF pickupDue THEN 0 ELSE game.pickupSpawnTimer + ev'.dt
                /\ Len(game'.enemies) <= Len(game.enemies) + spawned
                /\ Len(game'.enemies) >= spawned
                /\ Len(game'.pickups) =
                      Len(game.pickups) + dropped - Len(ev'.log.collected)
           ELSE /\ spawned = 0 /\ dropped = 0
                /\ game'.enemySpawnTimer = game.enemySpawnTimer
                /\ game'.pickupSpawnTimer = game.pickupSpawnTimer
                /\ Len(game'.enemies) = Len(game.enemies)
                /\ Len(game'.pickups)
                     = Len(game.pickups) - Len(ev'.log.collected)]_vars

\* A tick shorter than 1/30 s has spawned an enemy and a pickup at once,
\* and both timers are back at 0.
C25_Witness ==
    /\ ev.op = "gameLoop"
    /\ ev.dt < MAX_DELTA
    /\ ev.log.spawnedEnemies = 1
    /\ ev.log.spawnedPickups = 1
    /\ game.enemySpawnTimer = 0
    /\ game.pickupSpawnTimer = 0
    /\ game.currentState = "playing"

\* C26: setState with the current state changes nothing and emits no
\* event; with another state it sets previousState to the old state,
\* currentState to the new one and emits exactly one 'stateChanged' event
\* carrying {from: old, to: new}.  Hence after any sequence of setState
\* calls previousState differs from currentState.
C26_SetState ==
    [][ev'.op = "setState" =>
        /\ IF ev'.name = game.currentState
           THEN /\ game' = game
                /\ ev'.emitted = <<>>
           ELSE /\ game'.previousState = game.currentState
                /\ game'.currentState = ev'.name
                /\ game' = [game EXCEPT !.previousState = game.currentState,
                                        !.currentState = ev'.name]
                /\ ev'.emitted = <<[event |-> "stateChanged",
                                    from |-> game.currentState,
                                    to |-> ev'.name]>>
        /\ game'.previousState # game'.currentState]_vars

\* setState(BOOT) in BOOT, reached again by way of another state: nothing
\* was emitted and previousState is still that other state.
C26_Witness ==
    /\ ev.op = "setState"
    /\ ev.name = "boot"
    /\ ev.emitted = <<>>
    /\ game.currentState = "boot"
    /\ game.previousState \in GAME_STATES \ {"boot"}

\* C27: at the end of every tick executed in PLAYING every enemy on the
\* enemy list and every projectile on the projectile list has its alive
\* flag true, although Game.update resolves collisions a second time after
\* updatePlaying has filtered the dead out.
C27_NoDeadAfterTick ==
    [][(ev'.op = "gameLoop" /\ game.currentState = "playing") =>
        /\ \A i \in 1..Len(game'.enemies) : isAlive(game'.enemies[i])
        /\ \A i \in 1..Len(game'.projectiles) : game'.projectiles[i].alive]_vars

\* A tick has killed an enemy and removed it, has hit the player, and has
\* left an enemy's bullet that lies on the player, who cannot take damage,
\* on the list through the second collision pass.
C27_Witness ==
    /\ ev.op = "gameLoop"
    /\ ev.log.kills > 0
    /\ game.currentState = "playing"
    /\ game.player.hp < game.player.maxHp
    /\ ~canTakeDamage(game.player)
    /\ \E i \in 1..Len(game.projectiles) :
          /\ game.projectiles[i].owner # "player"
          /\ game.projectiles[i].alive
          /\ checkCircleCollision(game.projectiles[i], game.player)

\* C28: at most one game-loop chain is scheduled at any time: for any
\* sequence of start(), stop() and restart() calls interleaved with pending
\* animation-frame callbacks there is never more than one pending gameLoop
\* callback, so that Game.update runs at most once per display frame.
C28_OneLoopChain == hist.pending <= 1

\* The least index of seq whose element passes Test, 0 for none.
FirstIndex(seq, Test(_)) ==
    IF \E i \in 1..Len(seq) : Test(seq[i])
    THEN CHOOSE i \in 1..Len(seq) :
            Test(seq[i]) /\ \A j \in 1..(i - 1) : ~Test(seq[j])
    ELSE 0

TouchesPlayer(enemy) == checkCircleCollision(game.player, enemy)

StrikesPlayer(projectile) == strikesPlayer(projectile, game.player)

\* C29: contact damage is handled before enemy projectiles, and a projectile
\* of an enemy that overlaps the player is deactivated only if its damage is
\* applied: when the player can take damage at that point of the pass the
\* damage is applied and the projectile deactivated, otherwise the player's
\* hp is unchanged by it and the projectile stays as it was. A vulnerable
\* player that overlaps an enemy and an enemy projectile takes the contact
\* damage only.
C29_ContactBeforeProjectiles ==
    [][ev'.op = "handleCollisions" =>
        LET touch == FirstIndex(game.enemies, TouchesPlayer)
            strike == FirstIndex(game.projectiles, StrikesPlayer)
            vulnerable == canTakeDamage(game.player)
            open == vulnerable /\ touch = 0
        IN /\ Len(game'.projectiles) = Len(game.projectiles)
           /\ \A i \in 1..Len(game.projectiles) :
                StrikesPlayer(game.projectiles[i]) =>
                    game'.projectiles[i].alive =
                        (game.projectiles[i].alive /\ ~(open /\ i = strike))
           /\ game'.player.hp =
                IF vulnerable /\ touch # 0
                THEN Max(0, game.player.hp - game.enemies[touch].damage)
                ELSE IF open /\ strike # 0
                THEN Max(0, game.player.hp - game.projectiles[strike].damage)
                ELSE game.player.hp]_vars

\* A call has left the player hurt by the tank it touches alone, with the
\* enemy's projectile that lies on the player still alive.
C29_Witness ==
    /\ ev.op = "handleCollisions"
    /\ FirstIndex(game.enemies, TouchesPlayer) # 0
    /\ game.player.hp =
         game.player.maxHp
           - game.enemies[FirstIndex(game.enemies, TouchesPlayer)].damage
    /\ ~canTakeDamage(game.player)
    /\ \E i \in 1..Len(game.projectiles) :
         StrikesPlayer(game.projectiles[i]) /\ game.projectiles[i].alive

OverlapsPlayer(pickup) == checkCircleCollision(game.player, pickup)

\* The index of the overlapping pickup nearest to the player's centre, the
\* earliest of those at the same distance, 0 when none overlaps.
Candidate ==
    LET over == {i \in 1..Len(game.pickups) : OverlapsPlayer(game.pickups[i])}
        d(i) == DistSqTo(game.player, game.pickups[i])
    IN IF over = {} THEN 0
       ELSE CHOOSE i \in over :
               \A j \in over : d(i) < d(j) \/ (d(i) = d(j) /\ i <= j)

\* C30: the pickup candidate is the overlapping pickup with the smallest
\* centre distance to the player, ties going to the earliest in the list;
\* after handleCollisions pickupCandidate is null when no pickup overlaps
\* the player or the candidate was just collected, and otherwise it is that
\* element of the pickup list.
C30_PickupCandidate ==
    [][ev'.op = "handleCollisions" =>
        LET k == Candidate
            confirm == inputManager.pickup \/ gestureInput.rightPinchActive
        IN /\ k = 0 =>
                /\ game'.pickupCandidate = NoPickup
                /\ game'.pickups = game.pickups
           /\ (k # 0 /\ confirm) =>
                /\ game'.pickupCandidate = NoPickup
                /\ game'.pickups = RemoveAt(game.pickups, k)
                /\ Len(ev'.log.collected) = 1
                /\ ev'.log.collected[1].pickup = game.pickups[k]
           /\ (k # 0 /\ ~confirm) =>
                /\ game'.pickupCandidate = SomePickup(game.pickups[k])
                /\ game'.pickups = game.pickups
                /\ \E i \in 1..Len(game'.pickups) :
                      SomePickup(game'.pickups[i]) = game'.pickupCandidate]_vars

\* A call without a confirm signal has left as the candidate the earlier of
\* two overlapping pickups at the same, smallest distance.
C30_Witness ==
    /\ ev.op = "handleCollisions"
    /\ game.pickupCandidate.has
    /\ Candidate # 0
    /\ game.pickupCandidate = SomePickup(game.pickups[Candidate])
    /\ \E j \in (Candidate + 1)..Len(game.pickups) :
          /\ OverlapsPlayer(game.pickups[j])
          /\ DistSqTo(game.player, game.pickups[j])
               = DistSqTo(game.player, game.pickups[Candidate])
          /\ SomePickup(game.pickups[j]) # game.pickupCandidate

\* C31: after any sequence of creator-mode toggles, haste pickups, PLAYING
\* ticks and restarts the pistol's fire interval is the interval at
\* construction divided by 5 in creator mode and by 3 under haste; a restart
\* leaves the creatorMode flag and the pistol's base interval consistent.
C31_FireInterval ==
    game.weapons.pistol.fireRate =
        (NewWeapons.pistol.fireRate \div (IF game.creatorMode THEN 5 ELSE 1))
            \div (IF game.pistolHasteActive THEN 3 ELSE 1)

\* C32: haste does not stack: a tick that collects a pistol-haste pickup,
\* the haste being active or not, leaves the pistol's fire interval at a
\* third of the base interval and the remaining time at 10 s, and the haste
\* ends when 10 s of PLAYING time have passed since the most recent haste
\* pickup.
C32_HasteDoesNotStack ==
    [][ev'.op = "gameLoop" =>
        /\ Count(ev'.log.collected, IsHaste) > 0 =>
              /\ game'.pistolHasteActive
              /\ game'.pistolHasteRemaining = HASTE_DURATION
              /\ game'.weapons.pistol.fireRate = game'.pistolBaseFireRate \div 3
        /\ hist'.hasteElapsed >= 0 =>
              /\ game'.pistolHasteRemaining = HASTE_DURATION - hist'.hasteElapsed
              /\ game'.pistolHasteActive = (hist'.hasteElapsed < HASTE_DURATION)
              /\ game'.weapons.pistol.fireRate =
                    game'.pistolBaseFireRate
                        \div (IF game'.pistolHasteActive THEN 3 ELSE 1)]_vars

\* A tick has collected the second haste pickup alone, less than 10 s after
\* the game began and so while the haste of the first pickup was running.
C32_Witness ==
    /\ ev.op = "gameLoop"
    /\ Len(ev.log.collected) = 1
    /\ IsHaste(ev.log.collected[1])
    /\ Len(ev.log.collected[1].pickups) = 1
    /\ hist.time > MAX_DELTA
    /\ hist.time < HASTE_DURATION
    /\ game.pistolHasteRemaining = HASTE_DURATION
    /\ game.weapons.pistol.fireRate = game.pistolBaseFireRate \div 3

HasteTimerSound(g) ==
    /\ g.pistolHasteRemaining >= 0
    /\ g.pistolHasteRemaining <= HASTE_DURATION
    /\ g.pistolHasteActive = (g.pistolHasteRemaining > 0)

NextWeapon(key) ==
    CASE key = "pistol" -> "machine_gun"
      [] key = "machine_gun" -> "knife"
      [] key = "knife" -> "grenade"
      [] key = "grenade" -> "pistol"

AmmoOf(weapons) == [k \in DOMAIN weapons |-> weapons[k].currentAmmo]

\* C34: weapon toggling cycles pistol, machine_gun, knife, grenade and back
\* to pistol, so that four toggles return to the starting weapon; after
\* every toggle and every restart the player's equipped weapon is
\* weapons[currentWeaponKey]; toggling replaces and resets no weapon, and
\* the ammo of a weapon that is not in hand is unchanged by a tick that
\* collects nothing.
C34_WeaponCycle ==
    [][/\ \A i \in 1..Len(ev'.log.switched) :
            LET toggle == ev'.log.switched[i]
            IN /\ toggle.to = NextWeapon(toggle.from)
               /\ toggle.equipped = toggle.to
               /\ toggle.after = toggle.before
       /\ toggleWeapon(toggleWeapon(toggleWeapon(toggleWeapon(game')))) = game'
       /\ game'.player.weapon = game'.currentWeaponKey
       /\ Len(ev'.log.switched) = ev'.log.weaponToggles
       /\ ev'.log.weaponToggles > 0 =>
            game'.currentWeaponKey = NextWeapon(game.currentWeaponKey)
       /\ (ev'.op = "gameLoop" /\ ev'.log.collected = <<>>) =>
            \A k \in DOMAIN game.weapons \ {game.currentWeaponKey} :
               AmmoOf(game'.weapons)[k] = AmmoOf(game.weapons)[k]]_vars

\* The fourth toggle has brought the pistol back, and the machine gun keeps
\* the ammo it was left with when it was fired.
C34_Witness ==
    /\ ev.op = "gameLoop"
    /\ Len(ev.log.switched) = 1
    /\ ev.log.switched[1].from = "grenade"
    /\ game.currentWeaponKey = "pistol"
    /\ game.player.weapon = "pistol"
    /\ game.weapons.machine_gun.currentAmmo < NewWeapons.machine_gun.currentAmmo

\* C35: after a restart the equipped weapon is the pistol, and it stays the
\* pistol until a weapon-switch signal is raised after that restart: the
\* tick that follows the restart with no event in between, and so with no
\* signal raised since, makes no weapon toggle, whatever was requested
\* while the game was in GAME_OVER.
C35_PistolAfterRestart ==
    [][/\ ev'.op = "restart" =>
            /\ game'.currentWeaponKey = "pistol"
            /\ game'.player.weapon = "pistol"
       /\ (ev.op = "restart" /\ ev.before.state = "game_over"
           /\ ev'.op = "gameLoop") =>
            /\ ev'.log.weaponToggles = 0
            /\ game'.currentWeaponKey = "pistol"]_vars

Last(seq) == seq[Len(seq)]

\* 50 px outside one edge of the arena, within the span of that edge.
OutsideAnEdge(e) ==
    \/ /\ e.y \in {-(SPAWN_MARGIN * PX), (ARENA_HEIGHT + SPAWN_MARGIN) * PX}
       /\ e.x >= SPAWN_MARGIN * PX /\ e.x <= (ARENA_WIDTH - SPAWN_MARGIN) * PX
    \/ /\ e.x \in {-(SPAWN_MARGIN * PX), (ARENA_WIDTH + SPAWN_MARGIN) * PX}
       /\ e.y >= SPAWN_MARGIN * PX /\ e.y <= (ARENA_HEIGHT - SPAWN_MARGIN) * PX

\* C36: every enemy created by spawnEnemy is placed 50 units outside one
\* edge of the arena and at least SPAWN_SAFETY_DISTANCE (150) from the
\* player, for every position of the player in the arena and every choice
\* of edge and coordinate, although the position on the opposite edge is
\* not checked again.
C36_EnemySpawnSafe ==
    [][ev'.op = "spawnEnemy" =>
        /\ Len(game'.enemies) = Len(game.enemies) + 1
        /\ SubSeq(game'.enemies, 1, Len(game.enemies)) = game.enemies
        /\ OutsideAnEdge(Last(game'.enemies))
        /\ ~distanceBelow(Last(game'.enemies).x, Last(game'.enemies).y,
                          game.player.x, game.player.y,
                          SPAWN_SAFETY_DISTANCE * PX)]_vars

\* The first position was too close to the player, and the enemy stands on
\* the opposite edge.
C36_Witness ==
    /\ ev.op = "spawnEnemy"
    /\ distanceBelow(ev.drawn[1].x, ev.drawn[1].y, game.player.x, game.player.y,
                     SPAWN_SAFETY_DISTANCE * PX)
    /\ Last(game.enemies).x = ev.drawn[2].x
    /\ Last(game.enemies).y = ev.drawn[2].y

\* C37: every pickup created by spawnPickup lies fully inside the arena (its
\* centre at least PICKUP_RADIUS from each edge) and at least
\* PICKUP_SAFE_DISTANCE (50) from the player, for every position of the
\* player and every outcome of the draws, and spawnPickup ends after at most
\* 40 draws.
C37_PickupSpawnSafe ==
    [][ev'.op = "spawnPickup" =>
        LET pickup == Last(game'.pickups)
        IN /\ Len(game'.pickups) = Len(game.pickups) + 1
           /\ pickup.x >= PICKUP_RADIUS * PX
           /\ pickup.x <= (ARENA_WIDTH - PICKUP_RADIUS) * PX
           /\ pickup.y >= PICKUP_RADIUS * PX
           /\ pickup.y <= (ARENA_HEIGHT - PICKUP_RADIUS) * PX
           /\ \E i \in 1..PICKUP_DRAWS :
                 pickup.x = ev'.drawn[i].x /\ pickup.y = ev'.drawn[i].y
           /\ ~distanceBelow(pickup.x, pickup.y, game.player.x, game.player.y,
                             PICKUP_SAFE_DISTANCE * PX)]_vars

HeldDirections == {keyMap(code) : code \in hist.held}

Sign(n) == IF n > 0 THEN 1 ELSE IF n < 0 THEN -1 ELSE 0

\* Of length 1, in thousandths and up to the rounding of 1 / sqrt(2).
UnitLength(v) == Abs(v.x * v.x + v.y * v.y - 1000 * 1000) <= 1000

\* C38: while at least one key mapped to a direction is held down, that
\* direction contributes to the keyboard's move vector, also when the other
\* key mapped to the same direction has been released meanwhile; the vector
\* is zero or of unit length, and opposite directions held together cancel.
C38_HeldKeysMove ==
    [][ev'.op = "gameLoop" =>
        LET v == inputManager'.moveVector
            x == (IF "right" \in HeldDirections THEN 1 ELSE 0)
                 - (IF "left" \in HeldDirections THEN 1 ELSE 0)
            y == (IF "down" \in HeldDirections THEN 1 ELSE 0)
                 - (IF "up" \in HeldDirections THEN 1 ELSE 0)
        IN /\ Sign(v.x) = x
           /\ Sign(v.y) = y
           /\ v = Point(0, 0) \/ UnitLength(v)]_vars

IdsOf(callbacks) == [i \in 1..Len(callbacks) |-> callbacks[i].id]

\* The array without the first occurrence of the callback of that id.
WithoutFirst(callbacks, id) ==
    LET index == FirstIndex(IdsOf(callbacks), LAMBDA n : n = id)
    IN IF index = 0 THEN callbacks
       ELSE SubSeq(callbacks, 1, index - 1)
            \o SubSeq(callbacks, index + 1, Len(callbacks))

\* C39: emit(event, data) calls every callback that is subscribed to the
\* event when the emit starts exactly once, in subscription order, also
\* when a callback unsubscribes itself or another callback during the emit;
\* off() removes one subscription of the given callback and leaves the
\* others unchanged; emit on an event without subscribers does nothing.
C39_EmitCallsAll ==
    [][LET before == game.eventBus.listeners
           after == game'.eventBus.listeners
       IN /\ ev'.op = "emit" =>
               /\ ev'.called = IdsOf(before[ev'.event])
               /\ before[ev'.event] = <<>> => after = before
          /\ ev'.op = "off" =>
               /\ after[ev'.event] = WithoutFirst(before[ev'.event], ev'.callback)
               /\ \A event \in BusEvents \ {ev'.event} :
                     after[event] = before[event]]_vars

----------------------------------------------------------------------------
(* Claims about provider activation *)

\* The outstanding activations after a sequence of activate() and
\* deactivate() calls.
Tally(activations, calls) ==
    [p \in Providers |->
        activations[p]
        + Cardinality({i \in DOMAIN calls :
                         calls[i] = [call |-> "activate", provider |-> p]})
        - Cardinality({i \in DOMAIN calls :
                         calls[i] = [call |-> "deactivate", provider |-> p]})]

Balanced(im) ==
    \A p \in Providers :
        im.activations[p] = IF p = im.activeProvider THEN 1 ELSE 0

\* C40: after any sequence of registerProvider, setActiveProvider and update
\* calls the only provider with an activate() that no deactivate() has
\* followed is the active provider, and it has exactly one; a call that
\* activates a provider has deactivated the provider that was active
\* first, and the active provider changes only with such a call.
C40_ActivationBalanced ==
    [][LET calls == ev'.lifecycle
           old == inputManager.activeProvider
       IN /\ Balanced(inputManager')
          /\ inputManager'.activations = Tally(inputManager.activations, calls)
          /\ \A i \in DOMAIN calls :
                calls[i].call = "activate" =>
                    /\ calls[i].provider = inputManager'.activeProvider
                    /\ old # NoProvider =>
                          \E j \in 1..(i - 1) :
                              calls[j] = [call |-> "deactivate", provider |-> old]
          /\ inputManager'.activeProvider # old =>
                \E i \in DOMAIN calls : calls[i].call = "activate"]_vars

\* An update whose provider failed has switched to the fallback provider.
C40_Witness ==
    /\ ev.op = "update" /\ ev.fault
    /\ ev.activeBefore # NoProvider
    /\ inputManager.activeProvider # ev.activeBefore
    /\ ev.lifecycle = <<[call |-> "deactivate", provider |-> ev.activeBefore],
                        [call |-> "activate",
                         provider |-> inputManager.activeProvider]>>
    /\ inputManager.activations[inputManager.activeProvider] = 1
    /\ inputManager.activations[ev.activeBefore] = 0

====
